---- MODULE Spec2Model ----
(***************************************************************************)
(* A model of the dependency graph engine of sbomnix:                      *)
(*   - the version ordering        (sbomnix/derivation.py)                 *)
(*   - the dependency attributor   (src/sbomnix/sbomdb.py)                 *)
(*   - the graph traversal         (src/nixgraph/graph.py)                 *)
(*   - the derivation cache        (src/sbomnix/nix.py, derivation.py)     *)
(*   - the deriver lookup          (src/sbomnix/nix.py, find_deriver)      *)
(*   - the parsing of the graph    (src/nixgraph/graph.py)                 *)
(*   - the dependency types        (sbomnix/sbomdb.py, --type)             *)
(* Each part has its own specification over the shared variables; the      *)
(* variables of the other parts stay at their idle values.                 *)
(***************************************************************************)
EXTENDS Integers, Sequences, FiniteSets, TLC

VARIABLES
    \* version ordering
    left, right, third, vres,
    \* dependency attributor (SbomDb)
    df_sbomdb, df_deps, lookup,
    \* graph traversal (NixDependencyGraph): the fields of the object, the
    \* frames of _graph on the call stack, the start paths draw() has yet to
    \* traverse, and the history of the queries and of the expansions
    df, maxdepth, inverse_regex, until_regex, out_csv, df_out_csv,
    paths_drawn, digraph, stack, seeds, pc, queries, expanded,
    \* closure building (Store, SbomDb._init_sbomdb): the state of the nix
    \* store the queries answer from, the Store object, the paths the loop
    \* has yet to add, and the history of the paths added and of the output
    \* paths each record was reached through
    nixdb, store, todo, added, discovered, spc,
    \* deriver lookup (find_deriver): what the two sources and the file
    \* system answer for the path asked, and the outcome of the call
    sources, deriver,
    \* parsing of the store's graph output (NixDependencies): the lines of
    \* the output, the number of lines read, and the set of edge objects
    nix_query_out, lineno, dependencies,
    \* dependency attributor of the earlier revision: --type, the runtime
    \* and the buildtime edges of the closure, and the two edge lists loaded
    args_type, closure, df_rdeps, df_bdeps,
    \* derivation record (Derive): the object, and the history of the calls
    \* made on it
    derive_obj, derive_hist,
    \* CycloneDX export (to_cdx): the document written
    cdx,
    \* whitelist (df_apply_whitelist): the two tables and the result
    df_whitelist, df_vuln_id, df_applied,
    \* meta scan (Meta._scan): the lock file, the cache, and the callers
    meta_lock, cache_lock, cache, callers

verVars == <<left, right, third, vres>>
depVars == <<df_sbomdb, df_deps, lookup>>
graphArgs == <<df, maxdepth, inverse_regex, until_regex, out_csv>>
graphVars == <<graphArgs, df_out_csv, paths_drawn, digraph, stack, seeds, pc,
               queries, expanded>>
storeVars == <<nixdb, store, todo, added, discovered, spc>>
deriverVars == <<sources, deriver>>
parseVars == <<nix_query_out, lineno, dependencies>>
typeVars == <<args_type, closure, df_rdeps, df_bdeps>>
deriveVars == <<derive_obj, derive_hist>>
cdxVars == <<cdx>>
wlVars == <<df_whitelist, df_vuln_id, df_applied>>
metaVars == <<meta_lock, cache_lock, cache, callers>>
vars == <<verVars, depVars, graphVars, storeVars, deriverVars, parseVars, typeVars,
          deriveVars, cdxVars, wlVars, metaVars>>

Max(a, b) == IF a >= b THEN a ELSE b

\* The value of a result variable before the operation has run.
NoRes == [done |-> FALSE]

(***************************************************************************)
(* VERSION ORDERING.  A version string is a sequence of one-character      *)
(* strings.                                                                *)
(***************************************************************************)

Digits == {"0", "1", "2", "3", "4", "5", "6", "7", "8", "9"}

\* Code points of the characters version strings are built from
\* (the order Python's str comparison uses).
Ord(c) ==
    CASE c = "-" -> 45 [] c = "." -> 46
      [] c = "0" -> 48 [] c = "1" -> 49 [] c = "2" -> 50 [] c = "3" -> 51
      [] c = "4" -> 52 [] c = "5" -> 53 [] c = "6" -> 54 [] c = "7" -> 55
      [] c = "8" -> 56 [] c = "9" -> 57
      [] c = "a" -> 97 [] c = "b" -> 98 [] c = "c" -> 99 [] c = "e" -> 101
      [] c = "p" -> 112 [] c = "q" -> 113 [] c = "r" -> 114

\* Python's left < right on two strings.
RECURSIVE StrLt(_, _)
StrLt(s, t) ==
    IF t = <<>> THEN FALSE
    ELSE IF s = <<>> THEN TRUE
    ELSE IF Ord(Head(s)) < Ord(Head(t)) THEN TRUE
    ELSE IF Ord(Head(s)) > Ord(Head(t)) THEN FALSE
    ELSE StrLt(Tail(s), Tail(t))

DigitVal(c) == Ord(c) - 48

\* int(tok) succeeds: tok is a non-empty run of digits.
IsNum(tok) == tok # <<>> /\ \A i \in 1..Len(tok) : tok[i] \in Digits

\* int(tok) for a run of digits.
RECURSIVE IntOf(_)
IntOf(tok) ==
    IF tok = <<>> THEN 0
    ELSE 10 * IntOf(SubSeq(tok, 1, Len(tok) - 1)) + DigitVal(tok[Len(tok)])

Pre == <<"p", "r", "e">>

\* components_lt with the numeric comparison made non-strict.
components_lt_nonstrict(l, r) ==
    IF IsNum(l) /\ IsNum(r) THEN IntOf(l) <= IntOf(r)
    ELSE IF l = <<>> /\ IsNum(r) THEN TRUE
    ELSE IF l = Pre /\ r # Pre THEN TRUE
    ELSE IF r = Pre THEN FALSE
    ELSE IF IsNum(r) THEN TRUE
    ELSE IF IsNum(l) THEN FALSE
    ELSE StrLt(l, r)

\* components_lt without the special case for "pre".
components_lt_nopre(l, r) ==
    IF IsNum(l) /\ IsNum(r) THEN IntOf(l) < IntOf(r)
    ELSE IF l = <<>> /\ IsNum(r) THEN TRUE
    ELSE IF IsNum(r) THEN TRUE
    ELSE IF IsNum(l) THEN FALSE
    ELSE StrLt(l, r)

\* components_lt with the final string comparison the wrong way round.
components_lt_revstr(l, r) ==
    IF IsNum(l) /\ IsNum(r) THEN IntOf(l) < IntOf(r)
    ELSE IF l = <<>> /\ IsNum(r) THEN TRUE
    ELSE IF l = Pre /\ r # Pre THEN TRUE
    ELSE IF r = Pre THEN FALSE
    ELSE IF IsNum(r) THEN TRUE
    ELSE IF IsNum(l) THEN FALSE
    ELSE StrLt(r, l)

components_lt(l, r) ==
    IF IsNum(l) /\ IsNum(r) THEN IntOf(l) < IntOf(r)
    ELSE IF l = <<>> /\ IsNum(r) THEN TRUE
    ELSE IF l = Pre /\ r # Pre THEN TRUE
    ELSE IF r = Pre THEN FALSE
    ELSE IF IsNum(r) THEN TRUE
    ELSE IF IsNum(l) THEN FALSE
    ELSE StrLt(l, r)

\* 0: punctuation, 1: digit, 2: anything else.
category(c) == IF c \in {".", "-"} THEN 0 ELSE IF c \in Digits THEN 1 ELSE 2

\* The end (exclusive) of the run of category cat that starts before i.
RECURSIVE RunEnd(_, _, _)
RunEnd(v, i, cat) ==
    IF i <= Len(v) /\ category(v[i]) = cat THEN RunEnd(v, i + 1, cat) ELSE i

\* The tokens split_components yields for v from position start on.
RECURSIVE SplitFrom(_, _)
SplitFrom(v, start) ==
    IF start > Len(v) THEN <<>>
    ELSE LET cat0 == category(v[start])
             i    == RunEnd(v, start + 1, cat0)
         IN  IF cat0 # 0
             THEN <<SubSeq(v, start, i - 1)>> \o SplitFrom(v, i)
             ELSE SplitFrom(v, i)

split_components(v) == SplitFrom(v, 1)

\* Token i of a token sequence padded with empty tokens (zip_longest).
Tok(ts, i) == IF i <= Len(ts) THEN ts[i] ELSE <<>>

\* The loop of compare_versions from pair i on: the result and the index of
\* the pair at which it returned (0 when the pairs were exhausted).
\* This variant stops with 0 at a pair that is ordered neither way.
RECURSIVE CompareLoopStop(_, _, _)
CompareLoopStop(lt, rt, i) ==
    IF i > Max(Len(lt), Len(rt)) THEN [res |-> 0, at |-> 0]
    ELSE IF Tok(lt, i) = Tok(rt, i) THEN CompareLoopStop(lt, rt, i + 1)
    ELSE IF components_lt(Tok(lt, i), Tok(rt, i)) THEN [res |-> -1, at |-> i]
    ELSE IF components_lt(Tok(rt, i), Tok(lt, i)) THEN [res |-> 1, at |-> i]
    ELSE [res |-> 0, at |-> i]

RECURSIVE CompareLoop(_, _, _)
CompareLoop(lt, rt, i) ==
    IF i > Max(Len(lt), Len(rt)) THEN [res |-> 0, at |-> 0]
    ELSE IF Tok(lt, i) = Tok(rt, i) THEN CompareLoop(lt, rt, i + 1)
    ELSE IF components_lt(Tok(lt, i), Tok(rt, i)) THEN [res |-> -1, at |-> i]
    ELSE IF components_lt(Tok(rt, i), Tok(lt, i)) THEN [res |-> 1, at |-> i]
    ELSE CompareLoop(lt, rt, i + 1)

\* compare_versions with the index of the deciding pair.
CompareAt(l, r) ==
    IF l = r THEN [res |-> 0, at |-> 0]
    ELSE CompareLoop(split_components(l), split_components(r), 1)

compare_versions(l, r) == CompareAt(l, r).res

\* ---- the version strings the checks run over ----

\* Strings of every length up to MaxVerLen over VerChars are compared in
\* pairs; strings up to MaxTripleLen in triples.
MaxVerLen == 3
MaxTripleLen == 2

VerChars == {"0", "1", "a", "p", "."}
TripleChars == {"0", "1", "a", "."}

RECURSIVE StringsUpTo(_, _)
StringsUpTo(chars, n) ==
    IF n = 0 THEN {<<>>}
    ELSE LET shorter == StringsUpTo(chars, n - 1)
         IN  shorter \cup {Append(s, c) : s \in shorter, c \in chars}

\* A fixed sample of longer versions, among them the ones of the
\* specification's examples.
VerSamples ==
    { <<"1", ".", "0">>,                                \* 1.0
      <<"1", ".", "0", "p", "r", "e", "1">>,            \* 1.0pre1
      <<"2", ".", "3", ".", "4">>,                      \* 2.3.4
      <<"2", ".", "3", ".", "1", "0">>,                 \* 2.3.10
      <<"1", ".", "0", "-", "r", "c", "1">>,            \* 1.0-rc1
      <<"1", ".", "0", "-", "1">>,                      \* 1.0-1
      <<"1", ".", "0", "a">>,                           \* 1.0a
      <<"1", ".", "0", "p", "r", "e">>,                 \* 1.0pre
      <<"1", ".", "0", "p", "q">>,                      \* 1.0pq
      <<"0", "1", ".", "2">>,                           \* 01.2
      <<"1", ".", "3">>,                                \* 1.3
      <<"p", "r", "e">>,                                \* pre
      <<"r", "c">> }                                    \* rc

PairVersions == StringsUpTo(VerChars, MaxVerLen) \cup VerSamples
TripleVersions == StringsUpTo(TripleChars, MaxTripleLen) \cup VerSamples

DepIdle == df_sbomdb = <<>> /\ df_deps = <<>> /\ lookup = NoRes

\* A regular expression is modelled by the set of strings it matches;
\* NoRegex is the argument that was not given (None).
Regex(m) == [given |-> TRUE, matches |-> m]
NoRegex == [given |-> FALSE, matches |-> {}]

GraphIdle ==
    /\ df = <<>> /\ maxdepth = 1 /\ inverse_regex = NoRegex /\ until_regex = NoRegex
    /\ out_csv = FALSE /\ df_out_csv = <<>> /\ paths_drawn = {}
    /\ digraph = [nodes |-> <<>>, edges |-> <<>>]
    /\ stack = <<>> /\ seeds = <<>> /\ pc = "idle" /\ queries = <<>> /\ expanded = <<>>

StoreIdle ==
    /\ nixdb = <<>> /\ store = <<>> /\ todo = {} /\ added = <<>>
    /\ discovered = {} /\ spc = "idle"

DeriverIdle == sources = <<>> /\ deriver = NoRes

ParseIdle == nix_query_out = <<>> /\ lineno = 0 /\ dependencies = {}

TypeIdle ==
    /\ args_type = "" /\ closure = <<>> /\ df_rdeps = <<>> /\ df_bdeps = <<>>

DeriveIdle == derive_obj = <<>> /\ derive_hist = <<>>

CdxIdle == cdx = <<>>

WhitelistIdle == df_whitelist = <<>> /\ df_vuln_id = <<>> /\ df_applied = NoRes

MetaIdle == meta_lock = <<>> /\ cache_lock = <<>> /\ cache = <<>> /\ callers = <<>>

VerIdle == left = <<>> /\ right = <<>> /\ third = <<>> /\ vres = NoRes

\* compare_versions applied to the pair (left, right).
CompareVersions ==
    /\ vres = NoRes
    /\ vres' = [ done |-> TRUE,
                 lr |-> compare_versions(left, right),
                 rl |-> compare_versions(right, left),
                 at |-> CompareAt(left, right).at ]
    /\ UNCHANGED <<left, right, third, depVars, graphVars, storeVars, deriverVars, parseVars, typeVars,
                   deriveVars, cdxVars, wlVars, metaVars>>

\* compare_versions applied to the pairs of the triple (left, right, third).
CompareTriple ==
    /\ vres = NoRes
    /\ vres' = [ done |-> TRUE,
                 ll |-> compare_versions(left, left),
                 lr |-> compare_versions(left, right),
                 rl |-> compare_versions(right, left),
                 rt |-> compare_versions(right, third),
                 lt |-> compare_versions(left, third) ]
    /\ UNCHANGED <<left, right, third, depVars, graphVars, storeVars, deriverVars, parseVars, typeVars,
                   deriveVars, cdxVars, wlVars, metaVars>>

InitVersions ==
    /\ left \in PairVersions
    /\ right \in PairVersions
    /\ third = <<>>
    /\ vres = NoRes
    /\ DepIdle
    /\ GraphIdle
    /\ StoreIdle
    /\ DeriverIdle
    /\ ParseIdle
    /\ TypeIdle
    /\ DeriveIdle
    /\ CdxIdle
    /\ WhitelistIdle
    /\ MetaIdle

InitTriples ==
    /\ left \in TripleVersions
    /\ right \in TripleVersions
    /\ third \in TripleVersions
    /\ vres = NoRes
    /\ DepIdle
    /\ GraphIdle
    /\ StoreIdle
    /\ DeriverIdle
    /\ ParseIdle
    /\ TypeIdle
    /\ DeriveIdle
    /\ CdxIdle
    /\ WhitelistIdle
    /\ MetaIdle

NextVersions == CompareVersions
NextTriples == CompareTriple

SpecVersions == InitVersions /\ [][NextVersions]_vars
SpecTriples == InitTriples /\ [][NextTriples]_vars

(***************************************************************************)
(* DEPENDENCY ATTRIBUTOR.  A store path is a number: its rank in the       *)
(* order of the path strings.  A component is a row of df_sbomdb           *)
(* [store_path, name, outputs]; an edge a row of df_deps                   *)
(* [src_path, target_path].                                                *)
(***************************************************************************)

\* The build-description paths, the output paths, and a path that belongs
\* to no component (an input source).
DrvPaths == {1, 2, 3}
OutPaths == {4, 5, 6}
ForeignPath == 7
Paths == DrvPaths \cup OutPaths \cup {ForeignPath}

\* The empty cell of a row exploded from an empty outputs list (NaN).
NaN == 0

\* The most edges an edge list of the attributor's checks holds.
MaxEdges == 2

RECURSIVE SortedSeqOf(_)
\* The members of a set of numbers in ascending order: sorted(...).
SortedSeqOf(S) ==
    IF S = {} THEN <<>>
    ELSE LET m == CHOOSE x \in S : \A y \in S : x <= y
         IN  <<m>> \o SortedSeqOf(S \ {m})

Range(f) == { f[i] : i \in DOMAIN f }

\* Series.unique(): the values of a column in order of first appearance.
RECURSIVE Unique(_)
Unique(q) ==
    IF q = <<>> THEN <<>>
    ELSE LET front == Unique(SubSeq(q, 1, Len(q) - 1))
             x     == q[Len(q)]
         IN  IF x \in Range(front) THEN front ELSE Append(front, x)

\* DataFrame.explode("outputs"): one row per output, one row with an empty
\* cell for a component without outputs.
RECURSIVE Explode(_)
Explode(table) ==
    IF table = <<>> THEN <<>>
    ELSE LET row == Head(table)
             one(o) == [store_path |-> row.store_path, outputs |-> o]
             RECURSIVE Rows(_)
             Rows(outs) == IF outs = <<>> THEN <<>>
                           ELSE <<one(Head(outs))>> \o Rows(Tail(outs))
         IN  (IF row.outputs = <<>> THEN <<one(NaN)>> ELSE Rows(row.outputs))
             \o Explode(Tail(table))

\* A merge that takes the uid from the edge, its src_path, instead of from
\* the component.
RECURSIVE MergeUidsOfEdges(_, _, _)
MergeUidsOfEdges(leftdf, key, rightdf) ==
    IF leftdf = <<>> THEN <<>>
    ELSE LET row == Head(leftdf)
             hits == SelectSeq(rightdf, LAMBDA e : e.src_path = row[key])
         IN  [i \in 1..Len(hits) |-> hits[i].src_path]
             \o MergeUidsOfEdges(Tail(leftdf), key, rightdf)

\* The uid column of left.merge(df, how="inner", left_on=[key],
\* right_on=["src_path"]): for each left row in order, one row per row of
\* df whose src_path equals the left row's key.
RECURSIVE MergeUids(_, _, _)
MergeUids(leftdf, key, rightdf) ==
    IF leftdf = <<>> THEN <<>>
    ELSE LET row == Head(leftdf)
             hits == SelectSeq(rightdf, LAMBDA e : e.src_path = row[key])
         IN  [i \in 1..Len(hits) |-> row.store_path] \o MergeUids(Tail(leftdf), key, rightdf)

OutputsKey == "outputs"
StorePathKey == "store_path"

\* _lookup_dependencies without the filter on the component itself.
lookup_dependencies_keepself(drv) ==
    IF df_deps = <<>> THEN [list |-> FALSE]
    ELSE LET dfr == MergeUids(Explode(df_sbomdb), OutputsKey,
                       SelectSeq(df_deps, LAMBDA e : e.target_path \in Range(drv.outputs)))
             dfb == MergeUids(df_sbomdb, StorePathKey,
                       SelectSeq(df_deps, LAMBDA e : e.target_path = drv.store_path))
         IN  [list |-> TRUE, uids |-> SortedSeqOf(Range(Unique(dfr \o dfb)))]

\* _lookup_dependencies of the earlier revision: it returns the uids in the
\* order of their first appearance, unsorted.
lookup_dependencies_unsorted(drv) ==
    IF df_deps = <<>> THEN [list |-> FALSE]
    ELSE LET dfr == MergeUids(Explode(df_sbomdb), OutputsKey,
                       SelectSeq(df_deps, LAMBDA e : e.target_path \in Range(drv.outputs)))
             dfb == MergeUids(df_sbomdb, StorePathKey,
                       SelectSeq(df_deps, LAMBDA e : e.target_path = drv.store_path))
             dep_uids == Unique(dfr \o dfb)
         IN  [list |-> TRUE,
              uids |-> SelectSeq(dep_uids, LAMBDA u : u # drv.store_path)]

\* SbomDb._lookup_dependencies(drv, uid="store_path"): None ([list |-> FALSE])
\* when there is no edge, else the list of uids.
lookup_dependencies(drv) ==
    IF df_deps = <<>> THEN [list |-> FALSE]
    ELSE LET dfr == MergeUids(Explode(df_sbomdb), OutputsKey,
                       SelectSeq(df_deps, LAMBDA e : e.target_path \in Range(drv.outputs)))
             dfb == MergeUids(df_sbomdb, StorePathKey,
                       SelectSeq(df_deps, LAMBDA e : e.target_path = drv.store_path))
             dep_uids == SortedSeqOf(Range(Unique(dfr \o dfb)))
         IN  [list |-> TRUE,
              uids |-> SelectSeq(dep_uids, LAMBDA u : u # drv.store_path)]

\* The component tables of the checks: three components; df_sbomdb is sorted
\* by name, and the names are not in the order of the store paths.
Row(p, n, outs) == [store_path |-> p, name |-> n, outputs |-> outs]

SbomTables ==
    { << Row(2, "a", o2), Row(3, "b", o3), Row(1, "c", o1) >> :
        o1 \in {<<4>>, <<4, 5>>},
        o2 \in {<<5>>, <<6>>, <<5, 6>>},
        o3 \in {<<>>, <<6>>} }

TargetOnlyTables == { << Row(1, "c", o1) >> : o1 \in {<<4>>, <<4, 5>>} }

\* The package name is the part of a store path after the hash; two of the
\* paths are two versions of one package.
Pname(path) ==
    CASE path = 1 -> "t" [] path = 2 -> "b" [] path = 3 -> "b" [] path = 4 -> "d"
      [] path = 5 -> "a" [] path = 6 -> "f" [] path = 7 -> "g"

\* The rank of a package name in the order of strings.
PnameRank(n) ==
    CASE n = "a" -> 1 [] n = "b" -> 2 [] n = "d" -> 3 [] n = "f" -> 4
      [] n = "g" -> 5 [] n = "t" -> 6

Edge(s, t) == [src_path |-> s, src_pname |-> Pname(s),
               target_path |-> t, target_pname |-> Pname(t)]

\* The subsets of S of at most n members.
RECURSIVE SubsetsUpTo(_, _)
SubsetsUpTo(S, n) ==
    IF n = 0 THEN {{}}
    ELSE LET smaller == SubsetsUpTo(S, n - 1)
         IN  smaller \cup { T \cup {x} : T \in smaller, x \in S }

EdgeSets == SubsetsUpTo({ Edge(s, t) : s \in Paths, t \in Paths }, MaxEdges)

\* NixDependencies.to_dataframe(): the edges sorted by src_pname, src_path,
\* target_pname, target_path.
RECURSIVE EdgesToDataframe(_)
EdgesToDataframe(E) ==
    IF E = {} THEN <<>>
    ELSE LET key(e) == << PnameRank(e.src_pname), e.src_path,
                          PnameRank(e.target_pname), e.target_path >>
             before(a, b) ==
                 \E i \in 1..4 : a[i] < b[i] /\ \A j \in 1..(i - 1) : a[j] = b[j]
             m == CHOOSE e \in E : \A f \in E : f = e \/ before(key(e), key(f))
         IN  <<m>> \o EdgesToDataframe(E \ {m})

\* One iteration of the loop of to_cdx / to_spdx: the dependencies of a row.
LookupDependencies ==
    /\ \E i \in 1..Len(df_sbomdb) :
          lookup' = [done |-> TRUE, drv |-> df_sbomdb[i],
                     ret |-> lookup_dependencies(df_sbomdb[i])]
    /\ UNCHANGED <<df_sbomdb, df_deps, verVars, deriverVars, graphVars, storeVars, parseVars, typeVars,
                   deriveVars, cdxVars, wlVars, metaVars>>

\* With no edge the only component is the target (_init_sbomdb).
InitDeps ==
    /\ df_deps \in { EdgesToDataframe(E) : E \in EdgeSets }
    /\ df_sbomdb \in IF df_deps = <<>> THEN TargetOnlyTables ELSE SbomTables
    /\ lookup = NoRes
    /\ VerIdle
    /\ DeriverIdle
    /\ ParseIdle
    /\ TypeIdle
    /\ DeriveIdle
    /\ CdxIdle
    /\ WhitelistIdle
    /\ MetaIdle
    /\ GraphIdle
    /\ StoreIdle

NextDeps == LookupDependencies

SpecDeps == InitDeps /\ [][NextDeps]_vars

(***************************************************************************)
(* DEPENDENCY TYPES.  The earlier revision of SbomDb loads the runtime     *)
(* edges, the buildtime edges or both (--type) into df_rdeps and df_bdeps;  *)
(* the current revision loads one edge list, df_deps (--buildtime).         *)
(***************************************************************************)

\* _lookup_dependencies looking at the runtime edges only.
lookup_dependencies_runtime_only(drv, rdeps, bdeps) ==
    IF rdeps = <<>> THEN [list |-> FALSE]
    ELSE LET dfr == MergeUids(Explode(df_sbomdb), OutputsKey,
                       SelectSeq(rdeps, LAMBDA e : e.target_path \in Range(drv.outputs)))
         IN  [list |-> TRUE,
              uids |-> SelectSeq(Unique(dfr), LAMBDA u : u # drv.store_path)]

\* SbomDb._lookup_dependencies(drv) of the earlier revision: the runtime
\* dependencies from df_rdeps matched on the outputs, then the buildtime
\* dependencies from df_bdeps matched on the store path; None when neither
\* list holds an edge.
lookup_dependencies_types(drv, rdeps, bdeps) ==
    IF rdeps = <<>> /\ bdeps = <<>> THEN [list |-> FALSE]
    ELSE LET dfr == IF rdeps = <<>> THEN <<>>
                    ELSE MergeUids(Explode(df_sbomdb), OutputsKey,
                           SelectSeq(rdeps,
                               LAMBDA e : e.target_path \in Range(drv.outputs)))
             dfb == IF bdeps = <<>> THEN <<>>
                    ELSE MergeUids(df_sbomdb, StorePathKey,
                           SelectSeq(bdeps, LAMBDA e : e.target_path = drv.store_path))
             dep_uids == Unique(dfr \o dfb)
         IN  [list |-> TRUE,
              uids |-> SelectSeq(dep_uids, LAMBDA u : u # drv.store_path)]

\* The edges of a closure: runtime edges join output paths, buildtime edges
\* join derivations.
RuntimeEdgeSets ==
    SubsetsUpTo({ e \in { Edge(s, t) : s \in OutPaths, t \in OutPaths } :
                    e.src_path # e.target_path }, MaxEdges)

BuildtimeEdgeSets ==
    SubsetsUpTo({ e \in { Edge(s, t) : s \in DrvPaths, t \in DrvPaths } :
                    e.src_path # e.target_path }, MaxEdges)

\* main(): runtime = type in (runtime, both), buildtime = type in
\* (buildtime, both); the current revision has --buildtime alone, and labels
\* a buildtime run runtime_and_buildtime.
TypeRuntime(type) == type \in {"runtime", "both"}
TypeBuildtime(type) == type \in {"buildtime", "both"}

\* One iteration of the loop of to_cdx / to_spdx in the earlier revision.
LookupDependenciesTypes ==
    /\ \E i \in 1..Len(df_sbomdb) :
          lookup' = [done |-> TRUE, drv |-> df_sbomdb[i], types |-> TRUE,
                     ret |-> lookup_dependencies_types(df_sbomdb[i], df_rdeps, df_bdeps)]
    /\ UNCHANGED <<df_sbomdb, df_deps, verVars, deriverVars, graphVars, storeVars,
                   parseVars, typeVars,
                   deriveVars, cdxVars, wlVars, metaVars>>

\* SbomDb._init_dependencies of the two revisions on the same closure.
InitTypes ==
    /\ args_type \in {"runtime", "buildtime", "both"}
    /\ closure \in [runtime : RuntimeEdgeSets, buildtime : BuildtimeEdgeSets]
    /\ df_rdeps = IF TypeRuntime(args_type)
                  THEN EdgesToDataframe(closure.runtime) ELSE <<>>
    /\ df_bdeps = IF TypeBuildtime(args_type)
                  THEN EdgesToDataframe(closure.buildtime) ELSE <<>>
    /\ df_deps = IF TypeBuildtime(args_type)
                 THEN EdgesToDataframe(closure.buildtime)
                 ELSE EdgesToDataframe(closure.runtime)
    /\ df_sbomdb \in SbomTables
    /\ lookup = NoRes
    /\ DeriveIdle
    /\ CdxIdle
    /\ WhitelistIdle
    /\ MetaIdle
    /\ VerIdle
    /\ DeriverIdle
    /\ ParseIdle
    /\ GraphIdle
    /\ StoreIdle

NextTypes == LookupDependenciesTypes \/ LookupDependencies

SpecTypes == InitTypes /\ [][NextTypes]_vars

(***************************************************************************)
(* GRAPH TRAVERSAL.  NixDependencyGraph.draw() and the recursion of        *)
(* _graph(), one step per iteration of its loop.                           *)
(***************************************************************************)

\* The largest --depth the checks run with, and the most edges of a graph.
MaxDepthArg == 3
MaxGraphEdges == 5

GraphPaths == 1..5
StartPath == 1

\* The edges a graph of the checks may hold: target depends on src.  All
\* pairs that lead downwards, one that closes a cycle and a self loop.
GraphPairs ==
    { Edge(s, t) : s \in GraphPaths, t \in GraphPaths }
GraphEdgeUniverse ==
    { e \in GraphPairs :
        \/ e.target_path < e.src_path
        \/ (e.target_path = 4 /\ e.src_path = 1)
        \/ (e.target_path = 2 /\ e.src_path = 2) }

\* NixGraphFilter: a query on one column.
NixGraphFilter(col, path) == [col |-> col, val |-> path]

\* A regex_match that finds no match in any string.
regex_match_never(regex, string) == FALSE

\* regex_match(regex, string)
regex_match(regex, string) ==
    regex.given /\ string # "" /\ string \in regex.matches

\* df_regex_filter(df, "src_path", regex)
df_regex_filter(d, regex) == SelectSeq(d, LAMBDA row : row.src_path \in regex.matches)

\* NixDependencyGraph._query
Query(nixfilter) == SelectSeq(df, LAMBDA row : row[nixfilter.col] = nixfilter.val)

\* The depth test of _graph one level late.
DepthExceededLate(curr_depth) == curr_depth > maxdepth + 1

\* curr_depth > self.maxdepth
DepthExceeded(curr_depth) == curr_depth > maxdepth

\* A key of paths_drawn made of the package names instead of the paths.
PathKeyByName(row) == << row.target_pname, row.src_pname >>

\* The key of a row in paths_drawn: hash(f"{row.target_path}:{row.src_path}").
PathKey(row) == << row.target_path, row.src_path >>

\* A _path_drawn that does not remember the row.
paths_drawn_keep(drawn, row) == drawn

\* self.paths_drawn.add(hash_str) in _path_drawn
paths_drawn_add(drawn, row) == drawn \cup {PathKey(row)}

\* The rows of a query tagged with the depth, without the rows the loop of
\* _graph is going to skip for until_regex.
TaggedExpandable(rows, depth) ==
    LET kept == SelectSeq(rows, LAMBDA row :
                              ~regex_match(until_regex, row.target_pname))
    IN  [ i \in 1..Len(kept) |->
            [graph_depth |-> depth, src_path |-> kept[i].src_path,
             src_pname |-> kept[i].src_pname, target_path |-> kept[i].target_path,
             target_pname |-> kept[i].target_pname] ]

\* The rows of a query tagged with the depth: df.insert(0, "graph_depth", ...).
Tagged(rows, depth) ==
    [ i \in 1..Len(rows) |->
        [graph_depth |-> depth, src_path |-> rows[i].src_path,
         src_pname |-> rows[i].src_pname, target_path |-> rows[i].target_path,
         target_pname |-> rows[i].target_pname] ]

\* The call _graph(nixfilter, depth) up to the start of its loop: the state
\* it leaves in the stack, df_out_csv and the query history.
GraphCall(nixfilter, depth, stk, csv, qs) ==
    LET curr_depth == depth + 1
        rows == Query(nixfilter)
        asked == Append(qs, [filter |-> nixfilter, depth |-> curr_depth])
    IN  IF DepthExceeded(curr_depth)
        THEN [stack |-> stk, df_out_csv |-> csv, queries |-> qs]
        ELSE IF rows = <<>>
        THEN [stack |-> stk, df_out_csv |-> csv, queries |-> asked]
        ELSE [stack |-> Append(stk, [rows |-> rows, depth |-> curr_depth]),
              df_out_csv |-> IF out_csv THEN csv \o Tagged(rows, curr_depth) ELSE csv,
              queries |-> asked]

Top == stack[Len(stack)]
Below == SubSeq(stack, 1, Len(stack) - 1)

\* draw(): the first traversal, or the list of the start paths in inverse mode.
Draw ==
    /\ pc = "init"
    /\ pc' = "run"
    /\ IF inverse_regex.given
       THEN /\ seeds' = [ i \in 1..Len(df_regex_filter(df, inverse_regex)) |->
                            df_regex_filter(df, inverse_regex)[i].src_path ]
            /\ UNCHANGED <<stack, df_out_csv, queries>>
       ELSE LET r == GraphCall(NixGraphFilter("target_path", StartPath), 0,
                               stack, df_out_csv, queries)
            IN  /\ stack' = r.stack
                /\ df_out_csv' = r.df_out_csv
                /\ queries' = r.queries
                /\ UNCHANGED seeds
    /\ UNCHANGED <<graphArgs, paths_drawn, digraph, expanded, verVars, deriverVars, depVars, storeVars, parseVars, typeVars,
                   deriveVars, cdxVars, wlVars, metaVars>>

\* draw(), inverse mode: the traversal of the next start path.
DrawInverse ==
    /\ pc = "run" /\ stack = <<>> /\ seeds # <<>>
    /\ LET r == GraphCall(NixGraphFilter("src_path", Head(seeds)), 0,
                          stack, df_out_csv, queries)
       IN  /\ stack' = r.stack
           /\ df_out_csv' = r.df_out_csv
           /\ queries' = r.queries
    /\ seeds' = Tail(seeds)
    /\ UNCHANGED <<graphArgs, paths_drawn, digraph, expanded, pc, verVars, deriverVars, depVars, storeVars, parseVars, typeVars,
                   deriveVars, cdxVars, wlVars, metaVars>>

\* One iteration of the loop of _graph on the innermost frame.
GraphRow ==
    /\ pc = "run" /\ stack # <<>> /\ Top.rows # <<>>
    /\ LET row  == Head(Top.rows)
           rest == Append(Below, [rows |-> Tail(Top.rows), depth |-> Top.depth])
           next == IF inverse_regex.given
                   THEN NixGraphFilter("src_path", row.target_path)
                   ELSE NixGraphFilter("target_path", row.src_path)
           r    == GraphCall(next, Top.depth, rest, df_out_csv, queries)
       IN  IF regex_match(until_regex, row.target_pname)
           THEN /\ stack' = rest
                /\ UNCHANGED <<paths_drawn, digraph, df_out_csv, queries, expanded>>
           ELSE IF PathKey(row) \in paths_drawn
           THEN /\ stack' = rest
                /\ UNCHANGED <<paths_drawn, digraph, df_out_csv, queries, expanded>>
           ELSE /\ paths_drawn' = paths_drawn_add(paths_drawn, row)
                /\ digraph' = IF out_csv THEN digraph
                              ELSE [nodes |-> digraph.nodes \o <<row.src_path, row.target_path>>,
                                    edges |-> Append(digraph.edges,
                                                 <<row.target_path, row.src_path>>)]
                /\ expanded' = Append(expanded,
                                  [target_path |-> row.target_path,
                                   src_path |-> row.src_path, depth |-> Top.depth])
                /\ stack' = r.stack
                /\ df_out_csv' = r.df_out_csv
                /\ queries' = r.queries
    /\ UNCHANGED <<graphArgs, seeds, pc, verVars, deriverVars, depVars, storeVars, parseVars, typeVars,
                   deriveVars, cdxVars, wlVars, metaVars>>

\* The loop of the innermost frame is over: _graph returns.
GraphReturn ==
    /\ pc = "run" /\ stack # <<>> /\ Top.rows = <<>>
    /\ stack' = Below
    /\ UNCHANGED <<graphArgs, df_out_csv, paths_drawn, digraph, seeds, pc,
                   queries, expanded, verVars, deriverVars, depVars, storeVars, parseVars, typeVars,
                   deriveVars, cdxVars, wlVars, metaVars>>

\* The end of draw(): the graph is rendered, the table is written or
\* returned, or there is nothing to draw.
DrawEnd ==
    /\ pc = "run" /\ stack = <<>> /\ seeds = <<>>
    /\ pc' = IF digraph.nodes # <<>> \/ digraph.edges # <<>> THEN "rendered"
             ELSE IF out_csv /\ df_out_csv # <<>> THEN "csv"
             ELSE "nothing"
    /\ UNCHANGED <<graphArgs, df_out_csv, paths_drawn, digraph, stack, seeds,
                   queries, expanded, verVars, deriverVars, depVars, storeVars, parseVars, typeVars,
                   deriveVars, cdxVars, wlVars, metaVars>>

\* _graph and draw as functions, for the traversals a property compares with
\* the one under way.  A traversal carries g = [paths_drawn, df_out_csv,
\* edges, queries]; inv tells the direction.
RECURSIVE graph(_, _, _, _)
RECURSIVE graph_loop(_, _, _, _)
\* NixDependencyGraph._graph(nixfilter, curr_depth)
graph(nixfilter, depth, inv, g) ==
    LET curr_depth == depth + 1
        rows == Query(nixfilter)
        asked == [g EXCEPT !.queries =
                     Append(@, [filter |-> nixfilter, depth |-> curr_depth])]
    IN  IF DepthExceeded(curr_depth) THEN g
        ELSE IF rows = <<>> THEN asked
        ELSE graph_loop(rows, curr_depth, inv,
                 [asked EXCEPT !.df_out_csv =
                     IF out_csv THEN @ \o Tagged(rows, curr_depth) ELSE @])

\* The loop of _graph over the rows of its query.
graph_loop(rows, curr_depth, inv, g) ==
    IF rows = <<>> THEN g
    ELSE LET row == Head(rows)
             next == IF inv THEN NixGraphFilter("src_path", row.target_path)
                     ELSE NixGraphFilter("target_path", row.src_path)
         IN  IF regex_match(until_regex, row.target_pname)
             THEN graph_loop(Tail(rows), curr_depth, inv, g)
             ELSE IF PathKey(row) \in g.paths_drawn
             THEN graph_loop(Tail(rows), curr_depth, inv, g)
             ELSE graph_loop(Tail(rows), curr_depth, inv,
                     graph(next, curr_depth, inv,
                           [g EXCEPT !.paths_drawn = paths_drawn_add(@, row),
                                     !.edges = IF out_csv THEN @
                                               ELSE Append(@, <<row.target_path,
                                                                row.src_path>>)]))

\* A NixDependencyGraph before draw().
NewGraph == [paths_drawn |-> {}, df_out_csv |-> <<>>, edges |-> <<>>,
             queries |-> <<>>]

\* The loop of draw() over the start paths of inverse mode.
RECURSIVE graph_seeds(_, _)
graph_seeds(starts, g) ==
    IF starts = <<>> THEN g
    ELSE graph_seeds(Tail(starts),
                     graph(NixGraphFilter("src_path", Head(starts)), 0, TRUE, g))

\* The start paths of inverse mode cut down to the first.
InverseSeedsFirst(regex) ==
    IF df_regex_filter(df, regex) = <<>> THEN <<>>
    ELSE <<df_regex_filter(df, regex)[1].src_path>>

\* The start paths of inverse mode: the src_path of every row it matches.
InverseSeeds(regex) ==
    [ i \in 1..Len(df_regex_filter(df, regex)) |->
        df_regex_filter(df, regex)[i].src_path ]

\* draw(start_path, args) forwards, and with args.inverse.
draw_forward(start_path) ==
    graph(NixGraphFilter("target_path", start_path), 0, FALSE, NewGraph)

draw_inverse(regex) == graph_seeds(InverseSeeds(regex), NewGraph)

GraphEdgeSets == SubsetsUpTo(GraphEdgeUniverse, MaxGraphEdges)

InitGraph ==
    /\ df \in { EdgesToDataframe(E) : E \in GraphEdgeSets }
    /\ maxdepth \in 1..MaxDepthArg
    /\ inverse_regex \in {NoRegex, Regex({5}), Regex({4, 5})}
    /\ until_regex \in {NoRegex, Regex({"b"})}
    /\ out_csv \in BOOLEAN
    /\ df_out_csv = <<>> /\ paths_drawn = {}
    /\ digraph = [nodes |-> <<>>, edges |-> <<>>]
    /\ stack = <<>> /\ seeds = <<>> /\ pc = "init" /\ queries = <<>> /\ expanded = <<>>
    /\ VerIdle
    /\ DeriverIdle
    /\ ParseIdle
    /\ TypeIdle
    /\ DeriveIdle
    /\ CdxIdle
    /\ WhitelistIdle
    /\ MetaIdle
    /\ DepIdle
    /\ StoreIdle

NextGraph == Draw \/ DrawInverse \/ GraphRow \/ GraphReturn \/ DrawEnd

SpecGraph == InitGraph /\ [][NextGraph]_vars

\* draw() is one sequential computation: as long as a step is left, the
\* interpreter takes it.
SpecGraphFair == SpecGraph /\ WF_vars(NextGraph)

(***************************************************************************)
(* CLOSURE BUILDING.  SbomDb._init_sbomdb() adds every path of the edge    *)
(* list to a Store, in the order the set of paths enumerates them; the     *)
(* Store caches one Derive object per build-description path.              *)
(***************************************************************************)

\* Python's None, and the empty string of a derivation without "out".
None == 0

\* The paths of the store: .drv files and other paths.
StorePaths == DrvPaths \cup OutPaths

\* path.endswith(".drv")
IsDrv(path) == path \in DrvPaths

\* The most references the store of a check holds.
MaxStoreRefs == 3

\* The references a store can hold, as <<src, target>>: a .drv refers to
\* .drv files and to other paths, another path only to other paths.
StoreRefUniverse ==
    { e \in StorePaths \X StorePaths :
        e[1] > e[2] /\ (IsDrv(e[2]) \/ ~IsDrv(e[1])) }

\* The path the SBOM is made for resolves to this deriver.
TargetDrv == 1

\* envVars.get("out", "") of the derivation a .drv file holds.
DrvEnvOut(path) == CASE path = 1 -> 4 [] path = 2 -> 5 [] path = 3 -> None

\* The name attribute of the derivation a .drv file holds, and the rank of a
\* name in the order of strings.
DrvName(path) == CASE path = 1 -> "c" [] path = 2 -> "a" [] path = 3 -> "b"
NameRank(n) == CASE n = "a" -> 1 [] n = "b" -> 2 [] n = "c" -> 3

\* The derivers the store reports for the paths that are no .drv files.
DeriverMaps ==
    { f \in [OutPaths -> {None} \cup DrvPaths] :
        f[4] = 1 /\ f[5] \in {1, 2} /\ f[6] \in {None, 2, 3} }

\* nix-store -qR: a path and everything it refers to, directly or not.
RECURSIVE Reach(_)
Reach(S) ==
    LET N == S \cup { e[1] : e \in { r \in nixdb.refs : r[2] \in S } }
    IN  IF N = S THEN S ELSE Reach(N)

Requisites(path) == Reach({path})

\* nix-store -q --graph: the references among the requisites of a path.
QueryGraph(path) == { e \in nixdb.refs : e[2] \in Requisites(path) }

\* find_deriver(path): a .drv file is its own deriver; for another path the
\* store reports a deriver or none, or the lookup raises RuntimeError.
find_deriver(path) ==
    IF IsDrv(path) THEN [raised |-> FALSE, drv |-> path]
    ELSE IF path \in nixdb.unknown THEN [raised |-> TRUE, drv |-> None]
    ELSE [raised |-> FALSE, drv |-> nixdb.derivers[path]]

\* bisect.insort(outputs, path)
Insort(q, x) ==
    SelectSeq(q, LAMBDA y : y <= x) \o <<x>> \o SelectSeq(q, LAMBDA y : y > x)

\* Derive.add_output_path with every call replacing the outputs.
add_output_path_replace(drv, path) ==
    IF path # None /\ path # drv.store_path
    THEN [drv EXCEPT !.outputs = <<path>>]
    ELSE drv

\* Derive.add_output_path(path)
add_output_path(drv, path) ==
    IF path # None /\ path \notin Range(drv.outputs) /\ path # drv.store_path
    THEN [drv EXCEPT !.outputs = Insort(@, path)]
    ELSE drv

\* load(path, outpath): Derive.__init__ from the .drv file, then
\* Derive.init(path, outpath).
load(path, outpath) ==
    LET d_obj == [store_path |-> path, name |-> DrvName(path),
                  out |-> DrvEnvOut(path), outputs |-> <<>>]
    IN  add_output_path(d_obj, IF outpath # None /\ outpath # path
                               THEN outpath ELSE d_obj.out)

\* Store.derivations is a dict: the keys in the order of their insertion,
\* each with None or the index of a Derive object.  The functions below work
\* on a run [store, discovered, raised]: the Store, the history of the output
\* paths the objects were reached through, and the exception raised.
is_cached(r, path) ==
    \E i \in DOMAIN r.store.derivations : r.store.derivations[i][1] = path

get_cached(r, path) ==
    IF is_cached(r, path)
    THEN LET i == CHOOSE j \in DOMAIN r.store.derivations :
                      r.store.derivations[j][1] = path
         IN  r.store.derivations[i][2]
    ELSE None

add_cached(r, path, drv) ==
    LET d == r.store.derivations
    IN  [r EXCEPT !.store.derivations =
            IF is_cached(r, path)
            THEN [i \in DOMAIN d |-> IF d[i][1] = path THEN <<path, drv>> ELSE d[i]]
            ELSE Append(d, <<path, drv>>)]

Raise(r, exception) == [r EXCEPT !.raised = exception]

\* The outpath argument of the call of load in Store._update: the call
\* names one argument and load declares two, so the call fails with a
\* TypeError, or it goes through with no outpath or with the nixpath.
LoadOutpath(nixpath) == IF nixdb.outpath_arg = "nixpath" THEN nixpath ELSE None

\* Store._update(drv_path, nixpath=None)
update(r, drv_path, nixpath) ==
    IF ~IsDrv(drv_path) THEN add_cached(r, drv_path, None)
    ELSE IF nixpath # None /\ is_cached(r, nixpath) THEN r
    ELSE IF nixpath = None /\ is_cached(r, drv_path) THEN r
    ELSE IF get_cached(r, drv_path) = None /\ nixdb.outpath_arg = "missing"
    THEN Raise(r, "TypeError")
    ELSE LET r1 == IF get_cached(r, drv_path) = None
                   THEN add_cached(
                          [r EXCEPT !.store.objs =
                              Append(@, load(drv_path, LoadOutpath(nixpath)))],
                          drv_path, Len(r.store.objs) + 1)
                   ELSE r
             drv_obj == get_cached(r1, drv_path)
         IN  IF r1.store.objs[drv_obj].store_path # drv_path
             THEN Raise(r1, "AssertionError")
             ELSE IF nixpath # None
             THEN add_cached(
                    [r1 EXCEPT !.store.objs[drv_obj] = add_output_path(@, nixpath),
                               !.discovered = @ \cup {<<nixpath, drv_obj>>}],
                    nixpath, drv_obj)
             ELSE r1

\* The loop over the requisites in Store.add_path.
RECURSIVE update_candidates(_, _)
update_candidates(r, candidates) ==
    IF candidates = <<>> \/ r.raised # "" THEN r
    ELSE update_candidates(update(r, Head(candidates), None), Tail(candidates))

\* Store.add_path(nixpath)
add_path(r, nixpath) ==
    IF is_cached(r, nixpath) THEN r
    ELSE IF nixpath \in nixdb.missing THEN Raise(r, "RuntimeError")
    ELSE LET found == find_deriver(nixpath)
         IN  IF found.raised THEN Raise(r, "RuntimeError")
             ELSE IF found.drv = None THEN add_cached(r, nixpath, None)
             ELSE LET r1 == update(r, found.drv, nixpath)
                  IN  IF r1.raised # "" \/ ~r1.store.buildtime THEN r1
                      ELSE update_candidates(r1, SortedSeqOf(Requisites(found.drv)))

\* Store.to_dataframe(): a row for every value of the dict that is an object.
to_dataframe(st) ==
    LET values == SelectSeq(st.derivations, LAMBDA kv : kv[2] # None)
    IN  [ i \in DOMAIN values |->
            Row(st.objs[values[i][2]].store_path, st.objs[values[i][2]].name,
                st.objs[values[i][2]].outputs) ]

\* drop_duplicates(subset=["store_path"], keep="first")
RECURSIVE drop_duplicates(_)
drop_duplicates(table) ==
    IF table = <<>> THEN <<>>
    ELSE LET front == drop_duplicates(SubSeq(table, 1, Len(table) - 1))
             row   == table[Len(table)]
         IN  IF \E i \in DOMAIN front : front[i].store_path = row.store_path
             THEN front ELSE Append(front, row)

\* sort_values(by=["name", "store_path"])
RECURSIVE sort_values(_)
sort_values(table) ==
    IF table = <<>> THEN <<>>
    ELSE LET before(a, b) ==
                 \/ NameRank(a.name) < NameRank(b.name)
                 \/ a.name = b.name /\ a.store_path <= b.store_path
             m == CHOOSE i \in DOMAIN table :
                      /\ \A j \in DOMAIN table : before(table[i], table[j])
                      /\ \A j \in 1..(i - 1) : ~before(table[j], table[i])
         IN  <<table[m]>>
             \o sort_values(SubSeq(table, 1, m - 1) \o SubSeq(table, m + 1, Len(table)))

\* The component table _init_sbomdb makes of a Store.
Sbomdb(st) == sort_values(drop_duplicates(to_dataframe(st)))

\* One iteration of the loop of _init_sbomdb: the set enumerates some path
\* it has not enumerated yet, and the Store adds it; an exception ends the
\* run.
AddPath ==
    /\ spc = "adding"
    /\ \E path \in todo :
          LET r == add_path([store |-> store, discovered |-> discovered,
                             raised |-> ""], path)
          IN  /\ store' = r.store
              /\ discovered' = r.discovered
              /\ spc' = IF r.raised # "" THEN r.raised ELSE "adding"
              /\ todo' = todo \ {path}
              /\ added' = Append(added, path)
    /\ UNCHANGED <<nixdb, verVars, deriverVars, depVars, graphVars, parseVars, typeVars,
                   deriveVars, cdxVars, wlVars, metaVars>>

\* The end of _init_sbomdb: the table of the components.
InitSbomdb ==
    /\ spc = "adding" /\ todo = {}
    /\ df_sbomdb' = Sbomdb(store)
    /\ spc' = "done"
    /\ UNCHANGED <<nixdb, store, todo, added, discovered, df_deps, lookup,
                   verVars, deriverVars, graphVars, parseVars, typeVars,
                   deriveVars, cdxVars, wlVars, metaVars>>

\* SbomDb.__init__: the edge list is the graph of the target, the deriver in
\* buildtime mode and its output in runtime mode; the paths to add are the
\* paths of the edges, or the target deriver when there is no edge.
InitStore ==
    /\ nixdb \in [ refs : SubsetsUpTo(StoreRefUniverse, MaxStoreRefs),
                   derivers : DeriverMaps,
                   unknown : {{}, {6}},
                   missing : {{}, {5}},
                   outpath_arg : {"missing", "none", "nixpath"} ]
    \* no output is among the requisites of its own deriver
    /\ \A o \in OutPaths :
          nixdb.derivers[o] # None => o \notin Requisites(nixdb.derivers[o])
    /\ \E buildtime \in BOOLEAN :
          /\ store = [buildtime |-> buildtime, derivations |-> <<>>, objs |-> <<>>]
          /\ df_deps = EdgesToDataframe(
                 { Edge(e[1], e[2]) :
                     e \in QueryGraph(IF buildtime THEN TargetDrv
                                      ELSE DrvEnvOut(TargetDrv)) })
    /\ todo = IF df_deps = <<>> THEN {TargetDrv}
              ELSE { df_deps[i].src_path : i \in DOMAIN df_deps }
                   \cup { df_deps[i].target_path : i \in DOMAIN df_deps }
    /\ added = <<>> /\ discovered = {} /\ spc = "adding"
    /\ df_sbomdb = <<>> /\ lookup = NoRes
    /\ VerIdle
    /\ DeriverIdle
    /\ ParseIdle
    /\ TypeIdle
    /\ DeriveIdle
    /\ CdxIdle
    /\ WhitelistIdle
    /\ MetaIdle
    /\ GraphIdle

NextStore == AddPath \/ InitSbomdb

SpecStore == InitStore /\ [][NextStore]_vars

(***************************************************************************)
(* SBOM WITH --depth.  SbomDb._get_dependencies_df() takes the edge list   *)
(* from a traversal of the graph of the target that returns its table, and *)
(* _init_sbomdb() adds the paths of that table to the Store.               *)
(***************************************************************************)

\* The states of the nix store of the checks.
NixDbs ==
    { db \in [ refs : SubsetsUpTo(StoreRefUniverse, MaxStoreRefs),
               derivers : DeriverMaps,
               unknown : {{}, {6}},
               missing : {{}, {5}},
               outpath_arg : {"missing", "none", "nixpath"} ] : TRUE }

\* NixDependencies.start_path: the deriver of the target in buildtime mode,
\* its output in runtime mode.
start_path(buildtime) == IF buildtime THEN TargetDrv ELSE DrvEnvOut(TargetDrv)

\* The paths _init_sbomdb adds for an edge list.
PathsOf(deps) ==
    IF deps = <<>> THEN {TargetDrv}
    ELSE { deps[i].src_path : i \in DOMAIN deps }
         \cup { deps[i].target_path : i \in DOMAIN deps }

\* _get_dependencies_df with self.depth set: the table the traversal returns,
\* None (no row) when there was nothing to draw.
GetDependenciesDf ==
    /\ spc = "deps"
    /\ df_deps' = draw_forward(start_path(store.buildtime)).df_out_csv
    /\ todo' = PathsOf(df_deps')
    /\ spc' = "adding"
    /\ UNCHANGED <<nixdb, store, added, discovered, df_sbomdb, lookup,
                   verVars, deriverVars, graphVars, parseVars, typeVars,
                   deriveVars, cdxVars, wlVars, metaVars>>

\* SbomDb.__init__ with depth: the graph object holds all the edges of the
\* target and args.depth.
InitDepth ==
    /\ nixdb \in NixDbs
    \* no output is among the requisites of its own deriver
    /\ \A o \in OutPaths :
          nixdb.derivers[o] # None => o \notin Requisites(nixdb.derivers[o])
    /\ \E buildtime \in BOOLEAN :
          /\ store = [buildtime |-> buildtime, derivations |-> <<>>, objs |-> <<>>]
          /\ df = EdgesToDataframe(
                 { Edge(e[1], e[2]) : e \in QueryGraph(start_path(buildtime)) })
    /\ maxdepth \in 1..MaxDepthArg
    /\ inverse_regex = NoRegex /\ until_regex = NoRegex /\ out_csv = TRUE
    /\ df_out_csv = <<>> /\ paths_drawn = {}
    /\ digraph = [nodes |-> <<>>, edges |-> <<>>]
    /\ stack = <<>> /\ seeds = <<>> /\ pc = "idle" /\ queries = <<>> /\ expanded = <<>>
    /\ todo = {} /\ added = <<>> /\ discovered = {} /\ spc = "deps"
    /\ df_sbomdb = <<>> /\ df_deps = <<>> /\ lookup = NoRes
    /\ VerIdle
    /\ DeriverIdle
    /\ ParseIdle
    /\ TypeIdle
    /\ DeriveIdle
    /\ CdxIdle
    /\ WhitelistIdle
    /\ MetaIdle

NextDepth == GetDependenciesDf \/ AddPath \/ InitSbomdb

SpecDepth == InitDepth /\ [][NextDepth]_vars

(***************************************************************************)
(* CYCLONEDX EXPORT.  SbomDb.to_cdx() writes a component and a dependency  *)
(* entry for every row of the component table.                             *)
(***************************************************************************)

\* _drv_to_cdx_component(drv): the bom-ref is the uid of the row.
drv_to_cdx_component(drv) == [bom_ref |-> drv.store_path, name |-> drv.name]

\* _drv_to_cdx_dependency(drv, deps_list): dependsOn is left out when the
\* list is None or empty.
drv_to_cdx_dependency(drv, deps_list) ==
    IF deps_list.list /\ deps_list.uids # <<>>
    THEN [ref |-> drv.store_path, dependsOn |-> deps_list.uids]
    ELSE [ref |-> drv.store_path, dependsOn |-> <<>>]

\* The loop of to_cdx over the rows: the component of the target goes to
\* metadata.component, the others to components.
RECURSIVE cdx_rows(_, _)
cdx_rows(doc, rows) ==
    IF rows = <<>> THEN doc
    ELSE LET drv == Head(rows)
             component == drv_to_cdx_component(drv)
             placed == IF drv.store_path = TargetDrv
                       THEN [doc EXCEPT !.metadata_component = <<component>>]
                       ELSE [doc EXCEPT !.components = Append(@, component)]
         IN  cdx_rows([placed EXCEPT !.dependencies =
                          Append(@, drv_to_cdx_dependency(drv, lookup_dependencies(drv)))],
                      Tail(rows))

\* SbomDb.to_cdx(cdx_path)
ToCdx ==
    /\ spc = "done"
    /\ cdx' = cdx_rows([metadata_component |-> <<>>, components |-> <<>>,
                        dependencies |-> <<>>], df_sbomdb)
    /\ spc' = "cdx"
    /\ UNCHANGED <<nixdb, store, todo, added, discovered, depVars, verVars,
                   graphVars, deriverVars, parseVars, typeVars, deriveVars,
                   wlVars, metaVars>>

NextCdx == AddPath \/ InitSbomdb \/ ToCdx

SpecCdx == InitStore /\ [][NextCdx]_vars

(***************************************************************************)
(* DERIVER LOOKUP.  find_deriver(path) asks two sources: QueryValidDerivers *)
(* (nix derivation show, qvd) and QueryPathInfo (nix-store -qd, qpi).  The  *)
(* current code asks qvd first, the earlier Store._find_deriver qpi first.  *)
(***************************************************************************)

\* The string "unknown-deriver", which names no path.
UnknownDeriver == 9

\* The most keys the JSON of nix derivation show holds.
MaxQvdKeys == 2

\* What the sources can answer: sources.path is the path asked, qvd_ok tells
\* whether nix derivation show succeeded and qvd_keys are the keys of its
\* JSON, qpi_ok tells whether nix-store -qd succeeded and qpi is its output,
\* exists holds the candidates that os.path.exists finds.
SourceAnswers ==
    [ path : {1, 4},
      qvd_ok : BOOLEAN,
      qvd_keys : UNION { [1..n -> {None, 1, 2}] : n \in 0..MaxQvdKeys },
      qpi_ok : BOOLEAN,
      qpi : {None, UnknownDeriver, 1, 2, 3},
      exists : SUBSET DrvPaths ]

Returned(drv, asked) ==
    [raised |-> FALSE, exception |-> "", drv |-> drv, asked |-> asked, names |-> {}]

Raised(exception, asked, names) ==
    [raised |-> TRUE, exception |-> exception, drv |-> None, asked |-> asked,
     names |-> names]

\* The message naming whatever the two sources answered.
ErrorNamesUnfiltered(qpi_deriver, qvd_deriver) == {qpi_deriver, qvd_deriver}

\* The candidates the message of the RuntimeError names.
ErrorNames(qpi_deriver, qvd_deriver) ==
    (IF qpi_deriver # None /\ qpi_deriver # UnknownDeriver THEN {qpi_deriver} ELSE {})
    \cup (IF qvd_deriver # None /\ qvd_deriver # qpi_deriver THEN {qvd_deriver} ELSE {})

\* find_deriver returning the first key without the test for its existence.
find_deriver_unchecked(src) ==
    IF IsDrv(src.path) THEN Returned(src.path, <<>>)
    ELSE IF ~src.qvd_ok \/ src.qvd_keys = <<>> THEN Returned(None, <<"qvd">>)
    ELSE Returned(Head(src.qvd_keys), <<"qvd">>)

\* find_deriver(path) of nix.py, with the answers of the sources: the value
\* returned or the exception raised, the sources asked, and the candidates
\* the error message names.
find_deriver_qvd_first(src) ==
    IF IsDrv(src.path) THEN Returned(src.path, <<>>)
    ELSE IF ~src.qvd_ok \/ src.qvd_keys = <<>> THEN Returned(None, <<"qvd">>)
    ELSE LET qvd_deriver == Head(src.qvd_keys)
         IN  IF qvd_deriver # None /\ qvd_deriver \in src.exists
             THEN Returned(qvd_deriver, <<"qvd">>)
             ELSE IF ~src.qpi_ok
             THEN Raised("CalledProcessError", <<"qvd", "qpi">>, {})
             ELSE IF src.qpi # None /\ src.qpi # UnknownDeriver
                     /\ src.qpi \in src.exists
             THEN Returned(src.qpi, <<"qvd", "qpi">>)
             ELSE Raised("RuntimeError", <<"qvd", "qpi">>,
                         ErrorNames(src.qpi, qvd_deriver))

\* Store._find_deriver(path) of the earlier revision: qpi first.
find_deriver_qpi_first(src) ==
    IF IsDrv(src.path) THEN Returned(src.path, <<>>)
    ELSE IF ~src.qpi_ok THEN Raised("CalledProcessError", <<"qpi">>, {})
    ELSE IF src.qpi # None /\ src.qpi # UnknownDeriver /\ src.qpi \in src.exists
    THEN Returned(src.qpi, <<"qpi">>)
    ELSE IF ~src.qvd_ok \/ src.qvd_keys = <<>>
    THEN Returned(None, <<"qpi", "qvd">>)
    ELSE LET qvd_deriver == Head(src.qvd_keys)
         IN  IF qvd_deriver # None /\ qvd_deriver \in src.exists
             THEN Returned(qvd_deriver, <<"qpi", "qvd">>)
             ELSE Raised("RuntimeError", <<"qpi", "qvd">>,
                         ErrorNames(src.qpi, qvd_deriver))

\* A call of find_deriver, and a call of the earlier Store._find_deriver.
FindDeriver ==
    /\ deriver = NoRes
    /\ deriver' = [done |-> TRUE, first |-> "qvd",
                   ret |-> find_deriver_qvd_first(sources)]
    /\ UNCHANGED <<sources, verVars, depVars, graphVars, storeVars, parseVars, typeVars,
                   deriveVars, cdxVars, wlVars, metaVars>>

FindDeriverEarlier ==
    /\ deriver = NoRes
    /\ deriver' = [done |-> TRUE, first |-> "qpi",
                   ret |-> find_deriver_qpi_first(sources)]
    /\ UNCHANGED <<sources, verVars, depVars, graphVars, storeVars, parseVars, typeVars,
                   deriveVars, cdxVars, wlVars, metaVars>>

InitDeriver ==
    /\ sources \in SourceAnswers
    /\ deriver = NoRes
    /\ ParseIdle
    /\ TypeIdle
    /\ DeriveIdle
    /\ CdxIdle
    /\ WhitelistIdle
    /\ MetaIdle
    /\ VerIdle
    /\ DepIdle
    /\ GraphIdle
    /\ StoreIdle

NextDeriver == FindDeriver \/ FindDeriverEarlier

SpecDeriver == InitDeriver /\ [][NextDeriver]_vars

(***************************************************************************)
(* PARSING THE GRAPH OUTPUT.  NixDependencies reads the output of          *)
(* nix-store -q --graph line by line and keeps an edge object for every    *)
(* line that matches re_dependency.                                        *)
(***************************************************************************)

\* The most lines the output of the query holds.
MaxLines == 3

\* A line that re_dependency matches, with the two paths it names, and a
\* line it does not match (a node declaration, "digraph G {", "}").
DependencyLine(s, t) == [match |-> TRUE, src_path |-> s, target_path |-> t]
OtherLine == [match |-> FALSE, src_path |-> 0, target_path |-> 0]

QueryLines ==
    { DependencyLine(e.src_path, e.target_path) : e \in GraphEdgeUniverse }
    \cup {OtherLine}

\* NixDependency is a dataclass with eq=False: two objects are equal only
\* if they are the same object, whatever their fields.  An object is its
\* identity together with its fields.
NixDependency(id, s, t) == [id |-> id, dep |-> Edge(s, t)]

\* NixDependencies._add_dependency(dep_match): a new object goes into the set.
add_dependency(deps, id, ln) ==
    deps \cup {NixDependency(id, ln.src_path, ln.target_path)}

\* NixDependencies.to_dataframe(): a row for every object of the set, sorted
\* by src_pname, src_path, target_pname, target_path.
RECURSIVE dependencies_to_dataframe(_)
dependencies_to_dataframe(deps) ==
    IF deps = {} THEN <<>>
    ELSE LET key(d) == << PnameRank(d.dep.src_pname), d.dep.src_path,
                          PnameRank(d.dep.target_pname), d.dep.target_path, d.id >>
             before(a, b) ==
                 \E i \in 1..5 : a[i] < b[i] /\ \A j \in 1..(i - 1) : a[j] = b[j]
             m == CHOOSE d \in deps : \A f \in deps : f = d \/ before(key(d), key(f))
         IN  <<m.dep>> \o dependencies_to_dataframe(deps \ {m})

\* One iteration of the loop of _parse_nix_query_out.
ParseLine ==
    /\ pc = "parse"
    /\ lineno < Len(nix_query_out)
    /\ lineno' = lineno + 1
    /\ dependencies' = IF nix_query_out[lineno'].match
                       THEN add_dependency(dependencies, lineno', nix_query_out[lineno'])
                       ELSE dependencies
    /\ UNCHANGED <<nix_query_out, graphVars, verVars, depVars, storeVars,
                   deriverVars, typeVars,
                   deriveVars, cdxVars, wlVars, metaVars>>

\* to_dataframe() on the parsed set: the edge list the graph is drawn from.
ToDataframe ==
    /\ pc = "parse"
    /\ lineno = Len(nix_query_out)
    /\ df' = dependencies_to_dataframe(dependencies)
    /\ pc' = "parsed"
    /\ UNCHANGED <<maxdepth, inverse_regex, until_regex, out_csv, df_out_csv,
                   paths_drawn, digraph, stack, seeds, queries, expanded,
                   parseVars, verVars, depVars, storeVars, deriverVars, typeVars,
                   deriveVars, cdxVars, wlVars, metaVars>>

InitParse ==
    /\ nix_query_out \in UNION { [1..n -> QueryLines] : n \in 0..MaxLines }
    /\ lineno = 0
    /\ dependencies = {}
    /\ df = <<>> /\ maxdepth = 1 /\ inverse_regex = NoRegex /\ until_regex = NoRegex
    /\ out_csv = FALSE /\ df_out_csv = <<>> /\ paths_drawn = {}
    /\ digraph = [nodes |-> <<>>, edges |-> <<>>]
    /\ stack = <<>> /\ seeds = <<>> /\ pc = "parse" /\ queries = <<>> /\ expanded = <<>>
    /\ VerIdle
    /\ DepIdle
    /\ StoreIdle
    /\ DeriverIdle
    /\ TypeIdle
    /\ DeriveIdle
    /\ CdxIdle
    /\ WhitelistIdle
    /\ MetaIdle

NextParse == ParseLine \/ ToDataframe

SpecParse == InitParse /\ [][NextParse]_vars

(***************************************************************************)
(* VULNERABILITY WHITELIST.  df_apply_whitelist(df_whitelist, df_vulns)    *)
(* adds the columns whitelist and whitelist_comment to df_vulns.  A        *)
(* vulnerability id is a sequence of characters; a regular expression is a *)
(* sequence of tokens: a literal character, "." (any one character), ".*"  *)
(* (any characters) or " " (a blank).                                      *)
(***************************************************************************)

\* The largest number of rules of a whitelist and of rows of a report.
MaxRules == 2
MaxVulns == 1

VulnIdValues == { <<"A">>, <<"A", "B">> }
WhitelistRegexes == { <<"A", " ">>, <<"A", ".">>, <<".*">> }
PackageValues == { "p", "q" }

\* str.strip(): the blanks at both ends are removed.
RECURSIVE lstrip(_)
lstrip(s) == IF s # <<>> /\ Head(s) = " " THEN lstrip(Tail(s)) ELSE s

RECURSIVE rstrip(_)
rstrip(s) ==
    IF s # <<>> /\ s[Len(s)] = " " THEN rstrip(SubSeq(s, 1, Len(s) - 1)) ELSE s

strip(s) == lstrip(rstrip(s))

\* Series.str.fullmatch(regex) for one value: the whole of the value is
\* matched by the whole of the expression.
RECURSIVE fullmatch(_, _)
fullmatch(regex, value) ==
    IF regex = <<>> THEN value = <<>>
    ELSE IF Head(regex) = ".*"
         THEN \E k \in 0..Len(value) :
                 fullmatch(Tail(regex), SubSeq(value, k + 1, Len(value)))
         ELSE /\ value # <<>>
              /\ Head(regex) \in {".", Head(value)}
              /\ fullmatch(Tail(regex), Tail(value))

\* The rows of a whitelist: package is "" where the cell is empty, and
\* whitelist is the boolean load_whitelist made of the cell.
WhitelistRows ==
    [ vuln_id : WhitelistRegexes, package : {"", "p"},
      whitelist : BOOLEAN, comment : {"c1", "c2"} ]

\* A whitelist: its rows and which of the optional columns it has.  The
\* cells of a column the file does not have are not read.
Whitelists ==
    [ has_package : BOOLEAN, has_whitelist : BOOLEAN,
      rows : StringsUpTo(WhitelistRows, MaxRules) ]

\* The report before the call: the columns vuln_id and package.
VulnRows == [ vuln_id : VulnIdValues, package : PackageValues ]

\* df_matches of one whitelist entry, for one row of df_vulns.
df_matches(whitelist_entry, check_pkg_name, row) ==
    /\ fullmatch(strip(whitelist_entry.vuln_id), row.vuln_id)
    /\ (check_pkg_name /\ whitelist_entry.package # "") =>
           row.package = whitelist_entry.package

\* The body of the loop: the three assignments through df_vulns.loc.
apply_entry(whitelist_entry, check_pkg_name, check_whitelist, rows) ==
    [ i \in DOMAIN rows |->
        IF df_matches(whitelist_entry, check_pkg_name, rows[i])
        THEN [rows[i] EXCEPT
                 !.whitelist = IF check_whitelist
                               THEN whitelist_entry.whitelist ELSE TRUE,
                 !.whitelist_comment = whitelist_entry.comment]
        ELSE rows[i] ]

\* The order of the loop when the whitelist is read from the top.
df_whitelist_fwd(rows) == rows

\* df_whitelist[::-1]
df_whitelist_rev(rows) == [ i \in 1..Len(rows) |-> rows[Len(rows) + 1 - i] ]

RECURSIVE whitelist_loop(_, _, _, _)
whitelist_loop(entries, check_pkg_name, check_whitelist, rows) ==
    IF entries = <<>> THEN rows
    ELSE whitelist_loop(Tail(entries), check_pkg_name, check_whitelist,
                        apply_entry(Head(entries), check_pkg_name,
                                    check_whitelist, rows))

\* df_apply_whitelist: the default values, then the loop over the rules.
\* df_vulns has the columns vuln_id and package at every call.
df_apply_whitelist(whitelist, df_vulns) ==
    whitelist_loop(df_whitelist_rev(whitelist.rows),
                   whitelist.has_package, whitelist.has_whitelist,
                   [ i \in DOMAIN df_vulns |->
                       [ vuln_id |-> df_vulns[i].vuln_id,
                         package |-> df_vulns[i].package,
                         whitelist |-> FALSE,
                         whitelist_comment |-> "" ] ])

ApplyWhitelist ==
    /\ ~df_applied.done
    /\ df_applied' = [done |-> TRUE,
                      rows |-> df_apply_whitelist(df_whitelist, df_vuln_id)]
    /\ UNCHANGED <<df_whitelist, df_vuln_id, verVars, depVars, graphVars,
                   storeVars, deriverVars, parseVars, typeVars, deriveVars,
                   cdxVars, metaVars>>

InitWhitelist ==
    /\ df_whitelist \in Whitelists
    /\ df_vuln_id \in StringsUpTo(VulnRows, MaxVulns)
    /\ df_applied = NoRes
    /\ VerIdle
    /\ DepIdle
    /\ GraphIdle
    /\ StoreIdle
    /\ DeriverIdle
    /\ ParseIdle
    /\ TypeIdle
    /\ DeriveIdle
    /\ CdxIdle
    /\ MetaIdle

NextWhitelist == ApplyWhitelist

SpecWhitelist == InitWhitelist /\ [][NextWhitelist]_vars

(***************************************************************************)
(* NIXPKGS META CACHE.  Meta._scan(nixpkgs_path) holds the lock file       *)
(* _FLOCK through its own FileLock object, reads the cache, and on a miss  *)
(* runs NixMetaScanner.scan(); the scanner holds a FileLock object of its  *)
(* own on the same file.  The nixmeta command calls scan() directly.  A    *)
(* FileLock is re-entrant for the object that holds it and excludes every  *)
(* other object on the same file, in the same process or another.          *)
(***************************************************************************)

\* The callers: sbomnix processes or threads in Meta._scan, and nixmeta
\* processes in NixMetaScanner.scan, all for the same nixpkgs path.
NumCallers == 2
Callers == 1..NumCallers

\* A lock file nobody holds.
Unlocked == [by |-> None, obj |-> "none"]

\* FileLock.acquire() with every lock file free at all times.
lock_free_always(lock) == TRUE

\* FileLock.acquire() returns when no object holds the lock file; the
\* objects of the model are acquired once each, so none re-enters.
lock_free(lock) == lock.by = None

\* df is not None and not df.empty
NonEmpty(value) == value = "df"

\* What a step of a caller leaves alone.
OutsideMeta ==
    UNCHANGED <<verVars, depVars, graphVars, storeVars, deriverVars,
                parseVars, typeVars, deriveVars, cdxVars, wlVars>>

CallerStep(c, to, value) ==
    callers' = [callers EXCEPT ![c].pc = to, ![c].df = value]

\* Meta._scan: `with self.lock:`
MetaScanEnter(c) ==
    /\ callers[c].kind = "sbomnix" /\ callers[c].pc = "start"
    /\ lock_free(meta_lock)
    /\ meta_lock' = [by |-> c, obj |-> "Meta.lock"]
    /\ callers' = [callers EXCEPT ![c].pc = "meta_get",
                                  ![c].late = NonEmpty(cache)]
    /\ UNCHANGED <<cache_lock, cache>>
    /\ OutsideMeta

\* LockedDfCache.__getattr__: `with self.dflock:` of a get or a set.
CacheLock(c) ==
    /\ callers[c].pc \in {"meta_get", "meta_set", "rn_get", "rn_set"}
    /\ cache_lock # c
    /\ cache_lock = None
    /\ cache_lock' = c
    /\ UNCHANGED <<meta_lock, cache, callers>>
    /\ OutsideMeta

\* self.cache.get(nixpkgs_path), and what the caller does with the value:
\* Meta._scan returns a non-empty value and scans otherwise;
\* _read_nixpkgs_meta returns on a non-empty value and runs nix-env otherwise.
CacheGet(c) ==
    /\ callers[c].pc \in {"meta_get", "rn_get"}
    /\ cache_lock = c
    /\ cache_lock' = None
    /\ CallerStep(c, IF callers[c].pc = "meta_get"
                     THEN IF NonEmpty(cache) THEN "meta_exit" ELSE "scan"
                     ELSE IF NonEmpty(cache) THEN "rn_exit" ELSE "rn_env",
                  cache)
    /\ UNCHANGED <<meta_lock, cache>>
    /\ OutsideMeta

\* NixMetaScanner.scan up to the call of _read_nixpkgs_meta: meta.nix gives
\* the meta-info, or no nixpkgs path is found, or the scanner falls back to
\* the nixpkgs in the store.
ScannerScan(c) ==
    /\ callers[c].pc = "scan"
    /\ \E outcome \in {"flake_meta", "nothing", "nixpkgs"} :
          callers' = [callers EXCEPT
              ![c].pc = IF outcome = "nixpkgs" THEN "rn_wait" ELSE "scanned",
              ![c].df = IF outcome = "flake_meta" THEN "df" ELSE "none",
              ![c].scans = @ + 1]
    /\ UNCHANGED <<meta_lock, cache_lock, cache>>
    /\ OutsideMeta

\* _read_nixpkgs_meta: `with self.lock:`
ReadNixpkgsMetaEnter(c) ==
    /\ callers[c].pc = "rn_wait"
    /\ lock_free(meta_lock)
    /\ meta_lock' = [by |-> c, obj |-> "NixMetaScanner.lock"]
    /\ CallerStep(c, "rn_get", callers[c].df)
    /\ UNCHANGED <<cache_lock, cache>>
    /\ OutsideMeta

\* _read_nixpkgs_meta: nix-env -qa --meta --json and _parse_json_metadata.
NixEnv(c) ==
    /\ callers[c].pc = "rn_env"
    /\ \E parsed \in {"df", "empty"} : CallerStep(c, "rn_set", parsed)
    /\ UNCHANGED <<meta_lock, cache_lock, cache>>
    /\ OutsideMeta

\* self.cache.set(key=nixpkgs_path, value=..., ttl=...)
CacheSet(c) ==
    /\ callers[c].pc \in {"meta_set", "rn_set"}
    /\ cache_lock = c
    /\ cache_lock' = None
    /\ cache' = callers[c].df
    /\ CallerStep(c, IF callers[c].pc = "meta_set" THEN "meta_exit" ELSE "rn_exit",
                  callers[c].df)
    /\ UNCHANGED meta_lock
    /\ OutsideMeta

\* _read_nixpkgs_meta returns: the scanner's lock is released.
ReadNixpkgsMetaExit(c) ==
    /\ callers[c].pc = "rn_exit"
    /\ meta_lock' = Unlocked
    /\ CallerStep(c, "scanned", callers[c].df)
    /\ UNCHANGED <<cache_lock, cache>>
    /\ OutsideMeta

\* scan() has returned.  Meta._scan takes scanner.to_df(): None or an empty
\* table is answered with None, anything else is cached; nixmeta writes its
\* csv.
ScanReturn(c) ==
    /\ callers[c].pc = "scanned"
    /\ CallerStep(c, IF callers[c].kind = "nixmeta" THEN "done"
                     ELSE IF NonEmpty(callers[c].df) THEN "meta_set"
                     ELSE "meta_exit",
                  IF callers[c].kind = "sbomnix" /\ ~NonEmpty(callers[c].df)
                  THEN "none" ELSE callers[c].df)
    /\ UNCHANGED <<meta_lock, cache_lock, cache>>
    /\ OutsideMeta

\* Meta._scan returns: the end of `with self.lock:`.
MetaScanExit(c) ==
    /\ callers[c].pc = "meta_exit"
    /\ meta_lock' = Unlocked
    /\ CallerStep(c, "done", callers[c].df)
    /\ UNCHANGED <<cache_lock, cache>>
    /\ OutsideMeta

Caller(c) ==
    \/ MetaScanEnter(c) \/ CacheLock(c) \/ CacheGet(c) \/ ScannerScan(c)
    \/ ReadNixpkgsMetaEnter(c) \/ NixEnv(c) \/ CacheSet(c)
    \/ ReadNixpkgsMetaExit(c) \/ ScanReturn(c) \/ MetaScanExit(c)

\* The cache directory holds nothing, an empty table or the meta-info for
\* the path; sbomnix callers are about to call Meta._scan, nixmeta callers
\* are about to call scan.
InitMeta ==
    /\ meta_lock = Unlocked
    /\ cache_lock = None
    /\ cache \in {"none", "empty", "df"}
    /\ callers \in { f \in [Callers -> [kind : {"sbomnix", "nixmeta"},
                                         pc : {"start", "scan"},
                                         df : {"none"}, scans : {0},
                                         late : {FALSE}]] :
                       \A c \in Callers :
                           f[c].pc = "start" <=> f[c].kind = "sbomnix" }
    /\ VerIdle
    /\ DepIdle
    /\ GraphIdle
    /\ StoreIdle
    /\ DeriverIdle
    /\ ParseIdle
    /\ TypeIdle
    /\ DeriveIdle
    /\ CdxIdle
    /\ WhitelistIdle

NextMeta ==
    \/ \E c \in Callers : MetaScanEnter(c)
    \/ \E c \in Callers : CacheLock(c)
    \/ \E c \in Callers : CacheGet(c)
    \/ \E c \in Callers : ScannerScan(c)
    \/ \E c \in Callers : ReadNixpkgsMetaEnter(c)
    \/ \E c \in Callers : NixEnv(c)
    \/ \E c \in Callers : CacheSet(c)
    \/ \E c \in Callers : ReadNixpkgsMetaExit(c)
    \/ \E c \in Callers : ScanReturn(c)
    \/ \E c \in Callers : MetaScanExit(c)

SpecMeta == InitMeta /\ [][NextMeta]_vars

\* Every caller that can take a step takes one in the end: the callers are
\* processes or threads the operating system schedules.
SpecMetaFair == SpecMeta /\ \A c \in Callers : WF_vars(Caller(c))

(***************************************************************************)
(* DERIVATION RECORD.  Derive.__init__ reads the environment of a .drv     *)
(* file; init, add_output_path and set_cpe are called on the object.  A    *)
(* string is a sequence of syllables.                                      *)
(***************************************************************************)

\* The longest name and the longest pname of an environment.
MaxNameLen == 2
MaxPnameLen == 2

\* The paths the calls on a record are made with.
InitPaths == {1, 2}
CallPaths == {None, 1, 2, 4, 5}

Syllables == {"sou", "rce"}

\* The package name "source".
Source == <<"sou", "rce">>

SyllablesUpTo(n) == UNION { [1..k -> Syllables] : k \in 0..n }

\* The environments of the checks: name is not empty; pname may be absent,
\* and then the name stands for it.
EnvVars ==
    [ name : SyllablesUpTo(MaxNameLen) \ {<<>>},
      has_pname : BOOLEAN,
      pname : SyllablesUpTo(MaxPnameLen),
      version : {<<>>, <<"1">>},
      out : {None, 4, 5} ]

\* sep occurs in s at position i.
OccursAt(s, sep, i) ==
    i + Len(sep) - 1 <= Len(s) /\ SubSeq(s, i, i + Len(sep) - 1) = sep

\* s.partition(sep)[0]: the part of s before the first occurrence of sep,
\* and all of s when sep does not occur in it.
PartitionHead(s, sep) ==
    IF \E i \in 1..Len(s) : OccursAt(s, sep, i)
    THEN LET first == CHOOSE i \in 1..Len(s) :
                          /\ OccursAt(s, sep, i)
                          /\ \A j \in 1..(i - 1) : ~OccursAt(s, sep, j)
         IN  SubSeq(s, 1, first - 1)
    ELSE s

\* str(PackageURL(type="nix", name=name, version=version)): the version
\* follows an "@" unless it is empty.
PackageURL(name, version) ==
    <<"pkg:nix/">> \o name \o (IF version = <<>> THEN <<>> ELSE <<"@">> \o version)

\* CPE.generate(name, version): the vendor is the one the dictionary has for
\* the product, else the product name.
generate(cpe_generator, name, version) ==
    <<"cpe:2.3:a:">>
    \o (IF cpe_generator.vendor = <<>> THEN name ELSE cpe_generator.vendor)
    \o <<":">> \o name \o <<":">> \o version \o <<":*:*:*:*:*:*:*">>

\* A generator whose dictionary knows the product, one that does not.
CpeGenerators == { [vendor |-> <<"v">>], [vendor |-> <<>>] }

NotConstructed == [constructed |-> FALSE, raised |-> "ValueError"]

\* Derive.__init__ giving every record a purl.
DeriveNoSentinel(envVars) ==
    LET pname == IF envVars.has_pname THEN envVars.pname ELSE envVars.name
    IN  IF pname = <<>> THEN NotConstructed
        ELSE [constructed |-> TRUE, name |-> envVars.name,
              pname |-> PartitionHead(envVars.name, pname) \o pname,
              version |-> envVars.version, out |-> envVars.out,
              outputs |-> <<>>, store_path |-> None, cpe |-> <<>>,
              purl |-> PackageURL(PartitionHead(envVars.name, pname) \o pname,
                                  envVars.version)]

\* Derive.__init__(envVars=...): partition of an empty pname raises
\* ValueError and there is no object.
Derive(envVars) ==
    LET pname == IF envVars.has_pname THEN envVars.pname ELSE envVars.name
    IN  IF pname = <<>> THEN NotConstructed
        ELSE LET full == PartitionHead(envVars.name, pname) \o pname
             IN  [constructed |-> TRUE, name |-> envVars.name, pname |-> full,
                  version |-> envVars.version, out |-> envVars.out,
                  outputs |-> <<>>, store_path |-> None, cpe |-> <<>>,
                  purl |-> IF full # Source
                           THEN PackageURL(full, envVars.version) ELSE <<>>]

\* The history before any call: whether add_output_path came before init,
\* the number of times store_path was assigned (counted up to two), whether
\* an init failed on its assertion, every path outputs has held, and
\* whether set_cpe was called with a generator.
NoCalls == [early |-> FALSE, assigned |-> 0, asserted |-> FALSE, ever |-> {},
            cpe_asked |-> FALSE]

\* Derive.init(path, outpath)
DeriveInit ==
    /\ derive_obj.constructed
    /\ \E path \in InitPaths, outpath \in CallPaths :
          IF derive_obj.store_path # None
          THEN /\ derive_hist' = [derive_hist EXCEPT !.asserted = TRUE]
               /\ UNCHANGED derive_obj
          ELSE /\ derive_obj' =
                      add_output_path([derive_obj EXCEPT !.store_path = path],
                                      IF outpath # None /\ outpath # path
                                      THEN outpath ELSE derive_obj.out)
               /\ derive_hist' =
                      [derive_hist EXCEPT
                          !.assigned = IF @ < 2 THEN @ + 1 ELSE @,
                          !.ever = @ \cup Range(derive_obj'.outputs)]
    /\ UNCHANGED <<verVars, depVars, graphVars, storeVars, deriverVars, parseVars,
                   typeVars, cdxVars, wlVars, metaVars>>

\* Derive.add_output_path(path)
AddOutputPath ==
    /\ derive_obj.constructed
    /\ \E path \in CallPaths :
          /\ derive_obj' = add_output_path(derive_obj, path)
          /\ derive_hist' =
                 [derive_hist EXCEPT
                     !.early = @ \/ derive_obj.store_path = None,
                     !.ever = @ \cup Range(derive_obj'.outputs)]
    /\ UNCHANGED <<verVars, depVars, graphVars, storeVars, deriverVars, parseVars,
                   typeVars, cdxVars, wlVars, metaVars>>

\* Derive.set_cpe(cpe_generator); the generator may be None.
SetCpe ==
    /\ derive_obj.constructed
    /\ \/ UNCHANGED <<derive_obj, derive_hist>>
       \/ \E cpe_generator \in CpeGenerators :
             /\ derive_obj' =
                    IF derive_obj.pname # Source
                    THEN [derive_obj EXCEPT
                             !.cpe = generate(cpe_generator, derive_obj.pname,
                                              derive_obj.version)]
                    ELSE derive_obj
             /\ derive_hist' = [derive_hist EXCEPT !.cpe_asked = TRUE]
    /\ UNCHANGED <<verVars, depVars, graphVars, storeVars, deriverVars, parseVars,
                   typeVars, cdxVars, wlVars, metaVars>>

InitDerive ==
    /\ derive_obj \in { Derive(envVars) : envVars \in EnvVars }
    /\ derive_hist = NoCalls
    /\ VerIdle
    /\ DepIdle
    /\ GraphIdle
    /\ StoreIdle
    /\ DeriverIdle
    /\ ParseIdle
    /\ TypeIdle
    /\ CdxIdle
    /\ WhitelistIdle
    /\ MetaIdle

NextDerive == DeriveInit \/ AddOutputPath \/ SetCpe

SpecDerive == InitDerive /\ [][NextDerive]_vars

(***************************************************************************)
(* Properties of the dependency attributor.                                *)
(***************************************************************************)

Components == Range(df_sbomdb)
Edges == Range(df_deps)

\* Some edge leads from an output of c to an output of d, or from the
\* build-description path of c to the one of d.
HasEdge(c, d) ==
    \E e \in Edges :
        \/ e.target_path \in Range(c.outputs) /\ e.src_path \in Range(d.outputs)
        \/ e.target_path = c.store_path /\ e.src_path = d.store_path

ClaimedDependencies(c) ==
    { d.store_path : d \in { x \in Components : x # c /\ HasEdge(c, x) } }

StrictlyAscending(q) == \A i, j \in 1..Len(q) : i < j => q[i] < q[j]

C2_NoSelfLoop ==
    (lookup.done /\ lookup.ret.list) =>
        lookup.drv.store_path \notin Range(lookup.ret.uids)

\* A lookup for a component that an edge joins to itself, beside a real
\* dependency.
C2_Witness ==
    /\ lookup.done
    /\ lookup.ret.list
    /\ HasEdge(lookup.drv, lookup.drv)
    /\ lookup.ret.uids # <<>>

(***************************************************************************)
(* Properties of the graph traversal.                                      *)
(***************************************************************************)

PairOf(row) == << row.target_path, row.src_path >>
DfPairs == { PairOf(df[i]) : i \in DOMAIN df }

\* The pairs that match the start filter of a traversal: the edges of the
\* start path, or in inverse mode the edges whose source the regex matches.
StartPairs ==
    IF inverse_regex.given
    THEN { p \in DfPairs : p[2] \in inverse_regex.matches }
    ELSE { p \in DfPairs : p[1] = StartPath }

\* The pairs a chain of exactly n expansions from the start filter leads to.
RECURSIVE Level(_)
Level(n) ==
    IF n = 1 THEN StartPairs
    ELSE LET prev == Level(n - 1)
         IN  { p \in DfPairs :
                 \E f \in prev : IF inverse_regex.given THEN p[2] = f[1]
                                 ELSE p[1] = f[2] }

Within(n) == UNION { Level(i) : i \in 1..n }

\* C3: every exported row carries a depth d with 1 <= d <= maxdepth and is
\* reached by a chain of d expansions from the start filter, every drawn
\* edge is reached by a chain of at most maxdepth expansions, and no query
\* is made at a depth greater than maxdepth.
C3_DepthBound ==
    /\ \A i \in DOMAIN df_out_csv :
          /\ df_out_csv[i].graph_depth \in 1..maxdepth
          /\ PairOf(df_out_csv[i]) \in Level(df_out_csv[i].graph_depth)
    /\ \A i \in DOMAIN digraph.edges : digraph.edges[i] \in Within(maxdepth)
    /\ \A i \in DOMAIN expanded : expanded[i].depth \in 1..maxdepth
    /\ \A i \in DOMAIN queries : queries[i].depth \in 1..maxdepth

Finished == pc \in {"rendered", "csv", "nothing"}

\* A finished export with maxdepth 2 that reached depth 2 and left out an
\* edge that only a third expansion leads to.
C3_Witness ==
    /\ pc = "csv" /\ maxdepth = 2
    /\ \E i \in DOMAIN df_out_csv : df_out_csv[i].graph_depth = 2
    /\ \E p \in Level(3) : p \notin Within(2)
                           /\ \A i \in DOMAIN df_out_csv : PairOf(df_out_csv[i]) # p

\* The traversal as a function gives what the steps of the traversal give.
TraversalAgrees ==
    Finished =>
        LET g == IF inverse_regex.given THEN draw_inverse(inverse_regex)
                 ELSE draw_forward(StartPath)
        IN  /\ g.df_out_csv = df_out_csv
            /\ g.edges = digraph.edges
            /\ g.queries = queries
            /\ g.paths_drawn = paths_drawn

\* The diamond: 1 depends on 2 and on 3, which are two versions of one
\* package, and both depend on 4.
Diamond == { <<1, 2>>, <<1, 3>>, <<2, 4>>, <<3, 4>> }

\* The depth limit stopped no expansion: an edge expanded at depth maxdepth
\* leads to a node without further edges.
DepthSufficient ==
    \A i \in DOMAIN expanded :
        expanded[i].depth = maxdepth
            => \A p \in DfPairs : p[1] # expanded[i].src_path

\* A finished forward traversal of a graph that holds the diamond, without
\* a stop regex and with sufficient depth.
DiamondTraversed ==
    /\ Finished
    /\ Diamond \subseteq DfPairs
    /\ ~inverse_regex.given /\ ~until_regex.given
    /\ DepthSufficient

NoRepeat(q) == \A i, j \in DOMAIN q : i # j => q[i] # q[j]

ExportedPairs == [ i \in DOMAIN df_out_csv |-> PairOf(df_out_csv[i]) ]

Emitted == IF out_csv THEN Range(ExportedPairs) ELSE Range(digraph.edges)

\* C4 as stated: both edges into 4 and both edges with equal package names
\* are emitted, and no pair is emitted a second time, in rendered and in
\* tabular output.
C4_NoPairTwice ==
    DiamondTraversed =>
        /\ Diamond \subseteq Emitted
        /\ NoRepeat(digraph.edges)
        /\ NoRepeat(ExportedPairs)

Count(q, Test(_)) == Cardinality({ i \in DOMAIN q : Test(q[i]) })

\* C4 (amended): both edges into 4 and both edges with equal package names
\* are emitted; every path pair is expanded at most once, and in rendered
\* output drawn at most once.  4 is reached twice, once over each edge into
\* it, and a node is queried once for the start and once for every expanded
\* edge that reaches it within the depth limit; in tabular output every such
\* query exports the node's rows again.
C4_PairExpandedOnce ==
    DiamondTraversed =>
        /\ Diamond \subseteq Emitted
        /\ NoRepeat([ i \in DOMAIN expanded |->
                        << expanded[i].target_path, expanded[i].src_path >> ])
        /\ ~out_csv => /\ NoRepeat(digraph.edges)
                       /\ Len(digraph.edges) = Len(expanded)
        /\ \A n \in GraphPaths :
              Count(queries, LAMBDA q : q.filter.val = n)
                = Count(expanded, LAMBDA e : e.src_path = n /\ e.depth < maxdepth)
                  + (IF n = StartPath THEN 1 ELSE 0)
        /\ Count(expanded, LAMBDA e : e.src_path = 4) >= 2
        /\ out_csv => \A p \in DfPairs :
              Count(ExportedPairs, LAMBDA x : x = p)
                = Count(queries, LAMBDA q : q.filter.val = p[1])

\* A finished export of the diamond with an edge below it: the edge from 4
\* to 5 is exported with each of the two queries of 4.
C4_Witness ==
    /\ DiamondTraversed
    /\ out_csv
    /\ <<4, 5>> \in DfPairs
    /\ Count(ExportedPairs, LAMBDA x : x = <<4, 5>>) = 2
    /\ Count(expanded, LAMBDA e : e.target_path = 4 /\ e.src_path = 5) = 1

\* A row whose target package name the --until expression matches, and a
\* row some query of the traversal has returned.
UntilMatches(row) ==
    until_regex.given /\ row.target_pname \in until_regex.matches

Met(row) ==
    \E i \in DOMAIN queries : row[queries[i].filter.col] = queries[i].filter.val

\* C18: an edge whose target package name matches --until is never
\* expanded, and it is still recorded in the output of the traversal, in
\* rendered output as well as in tabular output.
C18_UntilRecorded ==
    Finished =>
        \A i \in DOMAIN df :
            UntilMatches(df[i]) /\ Met(df[i])
                => /\ \A k \in DOMAIN expanded : PairOf(expanded[k]) # PairOf(df[i])
                   /\ PairOf(df[i]) \in Emitted

\* C18, as the code has it: an edge whose target package name matches
\* --until is never expanded and never enters paths_drawn; the rendered
\* graph does not hold it; the table holds it whenever a query returned it.
C18_UntilStops ==
    \A i \in DOMAIN df :
        UntilMatches(df[i])
            => /\ \A k \in DOMAIN expanded : PairOf(expanded[k]) # PairOf(df[i])
               /\ PairOf(df[i]) \notin paths_drawn
               /\ PairOf(df[i]) \notin Range(digraph.edges)
               /\ Finished /\ out_csv /\ Met(df[i])
                      => PairOf(df[i]) \in Range(ExportedPairs)

\* A finished table of a forward traversal that holds a matching edge whose
\* source has edges of its own, within the depth, that no query asked for.
C18_Witness ==
    /\ pc = "csv" /\ ~inverse_regex.given
    /\ \E i \in DOMAIN df_out_csv :
          /\ UntilMatches(df_out_csv[i])
          /\ df_out_csv[i].graph_depth < maxdepth
          /\ \E j \in DOMAIN df : df[j].target_path = df_out_csv[i].src_path
          /\ \A k \in DOMAIN queries : queries[k].filter.val # df_out_csv[i].src_path

(***************************************************************************)
(* Properties of the version ordering.                                     *)
(***************************************************************************)

V_1_0      == <<"1", ".", "0">>
V_1_0pre1  == <<"1", ".", "0", "p", "r", "e", "1">>
V_2_3_4    == <<"2", ".", "3", ".", "4">>
V_2_3_10   == <<"2", ".", "3", ".", "1", "0">>
V_1_0_rc1  == <<"1", ".", "0", "-", "r", "c", "1">>

\* C5: compare_versions is a consistent ordering: compare_versions(a, a) = 0,
\* compare_versions(a, b) = -compare_versions(b, a), and a <= b together
\* with b <= c implies a <= c.
C5_ConsistentOrdering ==
    vres.done =>
        /\ vres.ll = 0
        /\ vres.lr = 0 - vres.rl
        /\ (vres.lr <= 0 /\ vres.rt <= 0) => vres.lt <= 0

\* A triple of three different versions in strictly ascending order.
C5_Witness ==
    /\ vres.done
    /\ vres.lr = -1 /\ vres.rt = -1 /\ vres.lt = -1
    /\ Len(split_components(left)) # Len(split_components(third))

\* The deciding pair of tokens of a comparison that has run.
DecidingLeft == Tok(split_components(left), vres.at)
DecidingRight == Tok(split_components(right), vres.at)

\* The token order as the claim words it; it says nothing about an
\* alphabetic token against a numeric one.
ClaimCovers(l, r) ==
    \/ IsNum(l) /\ IsNum(r)
    \/ l = Pre \/ r = Pre
    \/ l = <<>> /\ IsNum(r)
    \/ r = <<>> /\ IsNum(l)
    \/ ~IsNum(l) /\ ~IsNum(r)

ClaimLess(l, r) ==
    IF IsNum(l) /\ IsNum(r) THEN IntOf(l) < IntOf(r)
    ELSE IF l = Pre THEN r # Pre
    ELSE IF r = Pre THEN FALSE
    ELSE IF l = <<>> /\ IsNum(r) THEN TRUE
    ELSE IF r = <<>> /\ IsNum(l) THEN FALSE
    ELSE StrLt(l, r)

\* C6: at the deciding token pair numeric tokens compare by value, "pre" is
\* less than every other token, the missing token is less than every numeric
\* token, and otherwise two non-numeric tokens compare lexicographically;
\* compare_versions("1.0", "1.0pre1") = 1, compare_versions("2.3.4", "2.3.10") = -1.
C6_TokenOrder ==
    vres.done =>
        /\ (vres.at > 0 /\ ClaimCovers(DecidingLeft, DecidingRight)) =>
              /\ vres.lr = -1 <=> ClaimLess(DecidingLeft, DecidingRight)
              /\ vres.lr = 1 <=> ClaimLess(DecidingRight, DecidingLeft)
        /\ (left = V_1_0 /\ right = V_1_0pre1) => vres.lr = 1
        /\ (left = V_2_3_4 /\ right = V_2_3_10) => vres.lr = -1

\* "1.0" against "1.0pre1": decided by the missing token against "pre".
C6_Witness ==
    /\ vres.done
    /\ left = V_1_0 /\ right = V_1_0pre1
    /\ DecidingLeft = <<>> /\ DecidingRight = Pre
    /\ vres.lr = 1

\* C7 as stated: compare_versions("1.0-rc1", "1.0") returns -1.
C7_RcSortsBelow ==
    (vres.done /\ left = V_1_0_rc1 /\ right = V_1_0) => vres.lr = -1

\* left carries the tokens of right and more.
ExtendsTokens(l, r) ==
    LET lt == split_components(l)
        rt == split_components(r)
    IN  /\ Len(lt) > Len(rt)
        /\ SubSeq(lt, 1, Len(rt)) = rt

\* C7 (amended): compare_versions("1.0-rc1", "1.0") returns 1; a version that
\* carries extra suffix tokens sorts above the same version without them
\* unless the first extra token is "pre", and then it sorts below.
C7_SuffixOrder ==
    (vres.done /\ ExtendsTokens(left, right)) =>
        LET extra == Tok(split_components(left), Len(split_components(right)) + 1)
        IN  /\ extra # Pre => (vres.lr = 1 /\ vres.rl = -1)
            /\ extra = Pre => (vres.lr = -1 /\ vres.rl = 1)
            /\ (left = V_1_0_rc1 /\ right = V_1_0) => vres.lr = 1

C7_Witness ==
    /\ vres.done
    /\ left = V_1_0_rc1 /\ right = V_1_0
    /\ DecidingLeft = <<"r", "c">> /\ DecidingRight = <<>>
    /\ vres.lr = 1

\* The least member of a non-empty set of numbers, 0 for the empty set.
FirstOf(S) == IF S = {} THEN 0 ELSE CHOOSE i \in S : \A j \in S : i <= j

PairPositions == 1..Max(Len(split_components(left)), Len(split_components(right)))

\* The first position at which the padded token sequences hold different tokens.
FirstDifferent ==
    FirstOf({ i \in PairPositions :
                Tok(split_components(left), i) # Tok(split_components(right), i) })

\* Two numeric tokens of the same value ("01" and "1") differ as tokens
\* but are equal in the order.
SameToken(l, r) == l = r \/ (IsNum(l) /\ IsNum(r) /\ IntOf(l) = IntOf(r))

FirstDistinct ==
    FirstOf({ i \in PairPositions :
                ~SameToken(Tok(split_components(left), i),
                           Tok(split_components(right), i)) })

\* C8 as stated: the first position that holds different tokens decides, the
\* result is non-zero there, and 0 is returned only when no position differs.
C8_FirstDifferentDecides ==
    vres.done =>
        /\ vres.at = FirstDifferent
        /\ vres.lr = 0 <=> FirstDifferent = 0

\* C8 (amended): the first position whose tokens differ other than as two
\* numeric tokens of equal value decides: the result is non-zero and is the
\* order of those two tokens, no later token is consulted, and 0 is returned
\* only when there is no such position.
C8_FirstDistinctDecides ==
    vres.done =>
        /\ vres.at = FirstDistinct
        /\ vres.lr = 0 <=> FirstDistinct = 0
        /\ FirstDistinct > 0 =>
              (vres.lr = -1 <=> components_lt(DecidingLeft, DecidingRight))

\* "01.2" against "1.3": the first tokens differ, the second pair decides.
C8_Witness ==
    /\ vres.done
    /\ left = <<"0", "1", ".", "2">> /\ right = <<"1", ".", "3">>
    /\ FirstDifferent = 1
    /\ vres.at = 2
    /\ vres.lr = -1

(***************************************************************************)
(* Properties of the closure building.                                     *)
(***************************************************************************)

\* The output paths an object was reached through.
Via(i) == { o \in OutPaths : <<o, i>> \in discovered }

ThisRun == [store |-> store, discovered |-> discovered, raised |-> ""]

\* In every state the objects of the Store have distinct build-description
\* paths, each is cached under its own, and its outputs are, in ascending
\* order and without repetition, the output paths it was reached through,
\* and at most its own "out" besides.
OneRecordPerPath ==
    /\ \A i, j \in DOMAIN store.objs :
          i # j => store.objs[i].store_path # store.objs[j].store_path
    /\ \A i \in DOMAIN store.objs :
          /\ get_cached(ThisRun, store.objs[i].store_path) = i
          /\ Via(i) \subseteq Range(store.objs[i].outputs)
          /\ Range(store.objs[i].outputs) \subseteq Via(i) \cup {store.objs[i].out}
          /\ StrictlyAscending(store.objs[i].outputs)
    /\ \A k \in DOMAIN store.derivations :
          store.derivations[k][2] \in {None} \cup DOMAIN store.objs

\* No step removes or replaces an object or takes an output path from it.
RecordsOnlyGrow ==
    /\ Len(store'.objs) >= Len(store.objs)
    /\ \A i \in DOMAIN store.objs :
          /\ store'.objs[i].store_path = store.objs[i].store_path
          /\ store'.objs[i].name = store.objs[i].name
          /\ Range(store.objs[i].outputs) \subseteq Range(store'.objs[i].outputs)
          /\ get_cached([ThisRun EXCEPT !.store = store'],
                        store.objs[i].store_path) = i

RECURSIVE AddPaths(_, _)
AddPaths(r, order) ==
    IF order = <<>> \/ r.raised # "" THEN r
    ELSE AddPaths(add_path(r, Head(order)), Tail(order))

AscendingRun ==
    AddPaths([store |-> [store EXCEPT !.derivations = <<>>, !.objs = <<>>],
              discovered |-> {}, raised |-> ""],
             SortedSeqOf(todo \cup Range(added)))

LastAdded == added[Len(added)]

Targets == {TargetDrv, DrvEnvOut(TargetDrv)}

DeriverUnresolved(path) ==
    /\ ~IsDrv(path)
    /\ path \in nixdb.unknown \/ nixdb.derivers[path] = None

\* C16: a node other than the target whose deriver cannot be resolved is
\* skipped: adding it does not abort the run, it gets no record, and the
\* records made before it are kept.
C16_FailuresIsolated ==
    /\ added # <<>>
    /\ LastAdded \notin Targets
    /\ LastAdded \notin nixdb.missing
    /\ DeriverUnresolved(LastAdded)
    => /\ spc \in {"adding", "done"}
       /\ get_cached([store |-> store], LastAdded) = None

(***************************************************************************)
(* Properties of the SBOM with --depth.                                    *)
(***************************************************************************)

\* The paths within n dependency steps of the start path.
RECURSIVE WithinSteps(_)
WithinSteps(n) ==
    IF n = 0 THEN {start_path(store.buildtime)}
    ELSE LET near == WithinSteps(n - 1)
         IN  near \cup { e[1] : e \in { r \in nixdb.refs : r[2] \in near } }

\* The build-description path of the component a path belongs to, None when
\* it has no deriver.
ComponentOf(path) == IF IsDrv(path) THEN path ELSE nixdb.derivers[path]

ComponentsWithin(n) ==
    { ComponentOf(p) : p \in WithinSteps(n) } \ {None}

SbomPaths == { df_sbomdb[i].store_path : i \in DOMAIN df_sbomdb }

FullSbom ==
    AddPaths([store |-> [store EXCEPT !.derivations = <<>>, !.objs = <<>>],
              discovered |-> {}, raised |-> ""],
             SortedSeqOf(PathsOf(df)))

PairsOf(table) == { PairOf(table[i]) : i \in DOMAIN table }

\* The edge list is the graph of the start path, as NixDependencies makes
\* it, and maxdepth is at least the length of its longest chain.
DepthCoversGraph ==
    /\ Level(maxdepth + 1) = {}
    /\ DfPairs \subseteq Within(maxdepth)

\* The regex .* matches every path.
MatchAll == Regex(GraphPaths)

\* C13: when the edge list is the graph of the target and maxdepth covers
\* it, the pairs a forward traversal from the target exports are the pairs
\* an inverse traversal with a regex that matches every node exports.
C13_ForwardEqualsInverse ==
    (Finished /\ out_csv /\ ~inverse_regex.given /\ ~until_regex.given
       /\ DepthCoversGraph)
        => PairsOf(df_out_csv) = PairsOf(draw_inverse(MatchAll).df_out_csv)

\* A finished forward export of a graph with a chain of two edges and a
\* third edge, all exported.
C13_Witness ==
    /\ pc = "csv" /\ ~inverse_regex.given /\ ~until_regex.given
    /\ DepthCoversGraph
    /\ Level(2) # {}
    /\ Cardinality(DfPairs) >= 3
    /\ PairsOf(df_out_csv) = DfPairs
    /\ PairsOf(draw_inverse(MatchAll).df_out_csv) = DfPairs

\* The nodes inverse mode starts from: the src_path of the rows the caller
\* expression matches.
InverseNodes ==
    { df_regex_filter(df, inverse_regex)[i].src_path :
        i \in DOMAIN df_regex_filter(df, inverse_regex) }

\* The traversals started: the queries at depth 1.
Started == SelectSeq(queries, LAMBDA q : q.depth = 1)

\* The pairs a traversal from one node emits when it runs alone, on the same
\* edge list with the same arguments.
AlonePairs(node) ==
    LET g == graph(NixGraphFilter("src_path", node), 0, TRUE, NewGraph)
    IN  IF out_csv THEN PairsOf(g.df_out_csv) ELSE Range(g.edges)

OneTraversalPerNode ==
    /\ Len(Started) = Cardinality(InverseNodes)
    /\ \A n \in InverseNodes : \E i \in DOMAIN Started : Started[i].filter.val = n

UnionOfAloneRuns == Emitted = UNION { AlonePairs(n) : n \in InverseNodes }

\* C19: in inverse mode exactly one traversal is started for each node the
\* caller expression matches, and the output is the union of what each of
\* the traversals emits when it runs alone on the same edge list with the
\* same maxdepth.
C19_IndependentTraversals ==
    Finished /\ inverse_regex.given => OneTraversalPerNode /\ UnionOfAloneRuns

(***************************************************************************)
(* Properties of the deriver lookup (SpecDeriver).                          *)
(***************************************************************************)

\* The candidate each source reports: nothing when its query fails, when it
\* has no key, or when it answers "" or "unknown-deriver".
QvdCandidate ==
    IF sources.qvd_ok /\ sources.qvd_keys # <<>> THEN Head(sources.qvd_keys) ELSE None

QpiCandidate ==
    IF sources.qpi_ok /\ sources.qpi # UnknownDeriver THEN sources.qpi ELSE None

FirstCandidate == IF deriver.first = "qvd" THEN QvdCandidate ELSE QpiCandidate

SecondCandidate == IF deriver.first = "qvd" THEN QpiCandidate ELSE QvdCandidate

Resolves(c) == c # None /\ c \in sources.exists

\* C14: for a derivation path find_deriver returns the path itself, asking
\* no source; otherwise it returns the candidate of the first source when
\* that exists on disk, and the candidate of the second source only when
\* the first does not resolve and the second exists; a path it returns
\* always exists.
C14_FirstThenSecond ==
    deriver.done =>
        LET r == deriver.ret
        IN  /\ IsDrv(sources.path) => r = Returned(sources.path, <<>>)
            /\ ~IsDrv(sources.path) /\ Resolves(FirstCandidate)
                   => r = Returned(FirstCandidate, <<deriver.first>>)
            /\ ~IsDrv(sources.path) /\ ~r.raised /\ r.drv # None
                   => /\ r.drv \in sources.exists
                      /\ \/ Len(r.asked) = 1 /\ r.drv = FirstCandidate
                         \/ /\ Len(r.asked) = 2
                            /\ ~Resolves(FirstCandidate)
                            /\ r.drv = SecondCandidate

C14_Witness ==
    /\ deriver.done
    /\ deriver.first = "qvd"
    /\ ~IsDrv(sources.path)
    /\ QvdCandidate = 1
    /\ 1 \notin sources.exists
    /\ deriver.ret = Returned(2, <<"qvd", "qpi">>)

QvdNamed == sources.qvd_ok /\ sources.qvd_keys # <<>>

Disagree ==
    /\ FirstCandidate # None
    /\ SecondCandidate # None
    /\ FirstCandidate # SecondCandidate

NeitherResolves == ~Resolves(FirstCandidate) /\ ~Resolves(SecondCandidate)

\* C15: when the two sources disagree, or neither candidate resolves to an
\* existing path, find_deriver raises an error carrying both candidates and
\* never returns an empty result.
C15_FailsWithBothCandidates ==
    deriver.done /\ ~IsDrv(sources.path) /\ (Disagree \/ NeitherResolves)
        => /\ deriver.ret.raised
           /\ {FirstCandidate, SecondCandidate} \ {None} \subseteq deriver.ret.names

\* C15, as the code has it: find_deriver raises exactly when nix derivation
\* show names a key that does not exist and the candidate of nix-store -qd
\* does not resolve either (or, in the qpi-first revision, when nix-store
\* -qd itself fails); the RuntimeError names exactly the candidates that
\* are paths; when neither candidate resolves and nothing is raised the
\* result is empty; and sources that disagree do not fail the call when the
\* first candidate exists.
C15_FailureCases ==
    deriver.done /\ ~IsDrv(sources.path) =>
        LET r == deriver.ret
        IN  /\ r.raised <=>
                   \/ QvdNamed /\ ~Resolves(QvdCandidate) /\ ~Resolves(QpiCandidate)
                   \/ deriver.first = "qpi" /\ ~sources.qpi_ok
            /\ r.raised =>
                   IF sources.qpi_ok
                   THEN /\ r.exception = "RuntimeError"
                        /\ r.names = {QvdCandidate, QpiCandidate} \ {None}
                   ELSE r.exception = "CalledProcessError" /\ r.names = {}
            /\ ~r.raised /\ NeitherResolves => r.drv = None /\ ~QvdNamed
            /\ Disagree /\ Resolves(FirstCandidate)
                   => ~r.raised /\ r.drv = FirstCandidate

\* The empty result although the second source resolves, and the first
\* candidate returned although the sources disagree.
C15_Witness ==
    /\ deriver.done
    /\ ~IsDrv(sources.path)
    /\ \/ deriver.ret = Returned(None, <<"qvd">>) /\ Resolves(QpiCandidate)
       \/ Disagree /\ deriver.ret = Returned(FirstCandidate, <<deriver.first>>)

(***************************************************************************)
(* Properties of the parsing of the graph output (SpecParse).               *)
(***************************************************************************)

\* C17: the edge list is a set keyed on the path pair: after parsing any
\* output, also one that repeats a line, no two edges of dependencies and
\* no two rows of to_dataframe() have the same (target_path, src_path).
C17_EdgesKeyedOnPair ==
    /\ \A a, b \in dependencies : a # b => PairOf(a.dep) # PairOf(b.dep)
    /\ pc = "parsed" =>
           \A i, j \in DOMAIN df : i # j => PairOf(df[i]) # PairOf(df[j])

(***************************************************************************)
(* Properties of the dependency types (SpecTypes).                          *)
(***************************************************************************)

\* The components an edge of the closure contributes to the list of drv: a
\* runtime edge from one of its outputs to an output of the component, a
\* buildtime edge from its store path to the store path of the component.
RuntimeContribution(drv) ==
    { c.store_path : c \in { c \in Range(df_sbomdb) :
          \E e \in closure.runtime : /\ e.target_path \in Range(drv.outputs)
                                     /\ e.src_path \in Range(c.outputs) } }

BuildtimeContribution(drv) ==
    { c.store_path : c \in { c \in Range(df_sbomdb) :
          \E e \in closure.buildtime : /\ e.target_path = drv.store_path
                                       /\ e.src_path = c.store_path } }

\* What a call reported, as a set; None reports nothing.
Reported == IF lookup.ret.list THEN Range(lookup.ret.uids) ELSE {}

EarlierRevision == "types" \in DOMAIN lookup

\* hello is component 1 with the output 4, libc component 2 with the output
\* 5, gcc component 3; hello has the runtime edge to libc and the buildtime
\* edge to gcc.
HelloClosure ==
    /\ df_sbomdb = << Row(2, "a", <<5>>), Row(3, "b", <<6>>), Row(1, "c", <<4>>) >>
    /\ closure = [runtime |-> {Edge(5, 4)}, buildtime |-> {Edge(3, 1)}]

C21_NoIdentityIffSource ==
    derive_obj.constructed =>
        /\ derive_obj.purl = <<>> <=> derive_obj.pname = Source
        /\ derive_obj.cpe = <<>> <=> derive_obj.pname = Source
        /\ derive_obj.pname # Source
               => derive_obj.purl = PackageURL(derive_obj.pname, derive_obj.version)

\* C21, as the code has it: purl is empty if and only if pname is "source";
\* the cpe of a "source" record is empty before and after set_cpe; the cpe
\* of any other record is empty until set_cpe is called with a generator and
\* is the generator's identifier from then on; the purl of a record that is
\* not "source" is a function of pname and version.
C21_SourceHasNoIdentity ==
    derive_obj.constructed =>
        /\ derive_obj.purl = <<>> <=> derive_obj.pname = Source
        /\ derive_obj.pname = Source => derive_obj.cpe = <<>>
        /\ derive_obj.pname # Source
               => /\ derive_obj.cpe = <<>> <=> ~derive_hist.cpe_asked
                  /\ derive_obj.purl = PackageURL(derive_obj.pname, derive_obj.version)

\* A "source" record made from a name and a pname that are not "source",
\* after set_cpe was called with a generator.
C21_Witness ==
    /\ derive_obj.constructed
    /\ derive_obj.pname = Source
    /\ derive_obj.name # Source
    /\ derive_hist.cpe_asked
    /\ derive_obj.cpe = <<>> /\ derive_obj.purl = <<>>

\* C22: after init followed by any sequence of add_output_path calls,
\* store_path is not None and was assigned exactly once, a second init
\* having failed without a change; outputs holds no duplicate, no empty path
\* and never store_path; and a path once in outputs stays there.
C22_RecordInvariant ==
    derive_obj.constructed /\ ~derive_hist.early /\ derive_hist.assigned > 0 =>
        /\ derive_obj.store_path # None
        /\ derive_hist.assigned = 1
        /\ NoRepeat(derive_obj.outputs)
        /\ None \notin Range(derive_obj.outputs)
        /\ derive_obj.store_path \notin Range(derive_obj.outputs)
        /\ derive_hist.ever \subseteq Range(derive_obj.outputs)

\* A record with two outputs on which a second init has failed.
C22_Witness ==
    /\ derive_obj.constructed
    /\ ~derive_hist.early
    /\ derive_hist.asserted
    /\ Len(derive_obj.outputs) = 2

(***************************************************************************)
(* Properties of the CycloneDX export (SpecCdx).                            *)
(***************************************************************************)

\* The components of the document, metadata.component included, and their
\* bom-refs.
CdxComponents == cdx.metadata_component \o cdx.components

BomRefs == { CdxComponents[i].bom_ref : i \in DOMAIN CdxComponents }

\* C23: every component, the target included, has exactly one entry of the
\* dependencies section whose ref is its bom-ref; the ref of every entry is
\* the bom-ref of a component; and every value of a dependsOn list is the
\* bom-ref of a component of the same document.
C23_ReferentialIntegrity ==
    spc = "cdx" =>
        /\ \A i \in DOMAIN CdxComponents :
              Cardinality({ k \in DOMAIN cdx.dependencies :
                              cdx.dependencies[k].ref = CdxComponents[i].bom_ref }) = 1
        /\ \A k \in DOMAIN cdx.dependencies :
              /\ cdx.dependencies[k].ref \in BomRefs
              /\ Range(cdx.dependencies[k].dependsOn) \subseteq BomRefs

\* A document of a runtime SBOM with the target, two more components and a
\* component that depends on another through an output path.
C23_Witness ==
    /\ spc = "cdx"
    /\ ~store.buildtime
    /\ Len(cdx.metadata_component) = 1
    /\ Len(cdx.components) >= 2
    /\ \E k \in DOMAIN cdx.dependencies : cdx.dependencies[k].dependsOn # <<>>

(***************************************************************************)
(* Properties of the vulnerability whitelist (SpecWhitelist).               *)
(***************************************************************************)

\* The rules of df_whitelist that match row i of the report: the expression
\* matches the whole vuln_id and the package, where the rule has one, is the
\* row's.
MatchingRules(i) ==
    { k \in DOMAIN df_whitelist.rows :
        /\ fullmatch(strip(df_whitelist.rows[k].vuln_id), df_vuln_id[i].vuln_id)
        /\ (df_whitelist.has_package /\ df_whitelist.rows[k].package # "") =>
               df_vuln_id[i].package = df_whitelist.rows[k].package }

TopmostRule(i) == CHOOSE k \in MatchingRules(i) : \A j \in MatchingRules(i) : k <= j

\* C24: after df_apply_whitelist every row carries the flag and the comment
\* of the topmost rule that matches it, also when that rule's flag is False;
\* a row no rule matches has whitelist False and an empty comment.
C24_TopmostRuleWins ==
    df_applied.done =>
        /\ DOMAIN df_applied.rows = DOMAIN df_vuln_id
        /\ \A i \in DOMAIN df_vuln_id :
              IF MatchingRules(i) = {}
              THEN /\ df_applied.rows[i].whitelist = FALSE
                   /\ df_applied.rows[i].whitelist_comment = ""
              ELSE /\ df_applied.rows[i].whitelist =
                         IF df_whitelist.has_whitelist
                         THEN df_whitelist.rows[TopmostRule(i)].whitelist
                         ELSE TRUE
                   /\ df_applied.rows[i].whitelist_comment =
                         df_whitelist.rows[TopmostRule(i)].comment

\* A row that two rules match: the upper rule has the flag False, the lower
\* one whitelists, and their comments differ.
C24_Witness ==
    /\ df_applied.done
    /\ df_whitelist.has_whitelist
    /\ \E i \in DOMAIN df_vuln_id :
          /\ MatchingRules(i) = {1, 2}
          /\ ~df_whitelist.rows[1].whitelist
          /\ df_whitelist.rows[2].whitelist
          /\ df_whitelist.rows[1].comment # df_whitelist.rows[2].comment
          /\ df_whitelist.rows[1].package = "p"

(***************************************************************************)
(* Properties of the tabular export (SpecGraph).                            *)
(***************************************************************************)

\* A row of the edge list as the table holds it for a query of depth d.
ExportedAt(row, d) ==
    [graph_depth |-> d, src_path |-> row.src_path, src_pname |-> row.src_pname,
     target_path |-> row.target_path, target_pname |-> row.target_pname]

\* The rows of the queries made so far, each query's rows in the order of
\* the edge list and tagged with the depth of the query.
RECURSIVE RowsOfQueries(_)
RowsOfQueries(qs) ==
    IF qs = <<>> THEN <<>>
    ELSE LET q == qs[Len(qs)]
             rows == SelectSeq(df, LAMBDA row : row[q.filter.col] = q.filter.val)
         IN  RowsOfQueries(SubSeq(qs, 1, Len(qs) - 1))
             \o [ i \in 1..Len(rows) |-> ExportedAt(rows[i], q.depth) ]

\* C25: in tabular mode every query is made at a depth d <= maxdepth and the
\* table is, at every moment, the rows of the queries made so far, each
\* tagged with graph_depth = d; the rows a call of _graph has not looked at
\* yet are in the table already, so the until_regex test and the
\* paths_drawn test take no row out of the export.
C25_RowsExportedBeforeTests ==
    out_csv =>
        /\ \A k \in DOMAIN queries : queries[k].depth \in 1..maxdepth
        /\ df_out_csv = RowsOfQueries(queries)
        /\ \A f \in DOMAIN stack : \A i \in DOMAIN stack[f].rows :
              \E j \in DOMAIN df_out_csv :
                  df_out_csv[j] = ExportedAt(stack[f].rows[i], stack[f].depth)

\* A finished tabular traversal that exported a row whose target name
\* matches until_regex and a row whose pair had been drawn before.
C25_Witness ==
    /\ out_csv /\ pc = "csv"
    /\ \E i \in DOMAIN df_out_csv :
          regex_match(until_regex, df_out_csv[i].target_pname)
    /\ \E i, j \in DOMAIN df_out_csv :
          /\ i < j
          /\ df_out_csv[i].src_path = df_out_csv[j].src_path
          /\ df_out_csv[i].target_path = df_out_csv[j].target_path

(***************************************************************************)
(* Properties of the keys of the cache (SpecStore).                         *)
(***************************************************************************)

\* The keys of Store.derivations whose value is the object o.
KeysOf(o) ==
    { store.derivations[i][1] :
        i \in { j \in DOMAIN store.derivations : store.derivations[j][2] = o } }

Scanning ==
    { c \in Callers :
        /\ callers[c].kind = "sbomnix"
        /\ callers[c].pc \in {"scan", "rn_wait", "rn_get", "rn_env", "rn_set",
                              "rn_exit", "scanned"} }

\* C27: of the callers of Meta._scan at most one runs scan() at any time,
\* and a caller that enters once a non-empty result is stored runs no scan
\* and returns the stored result.
C27_OneScanThenCached ==
    /\ Cardinality(Scanning) <= 1
    /\ \A c \in Callers :
          (callers[c].kind = "sbomnix" /\ callers[c].late) =>
              /\ callers[c].scans = 0
              /\ callers[c].pc = "done" => callers[c].df = "df"

\* One caller scanned and stored its result while another waited for the
\* lock file; the other then returned the stored result without a scan.
C27_Witness ==
    \E c, d \in Callers :
        /\ callers[c].kind = "sbomnix" /\ callers[d].kind = "sbomnix"
        /\ callers[c].pc = "done" /\ callers[c].scans = 1 /\ callers[c].df = "df"
        /\ callers[d].pc = "done" /\ callers[d].scans = 0 /\ callers[d].df = "df"
        /\ callers[d].late

\* C30: a call of Meta._scan that misses the cache completes: the scan it
\* starts under the lock file is never left waiting for that lock file, and
\* every lock it took is free again when it has returned.
C30_MissCompletes ==
    \A c \in Callers :
        (callers[c].kind = "sbomnix" /\ callers[c].pc = "scan")
            ~> (callers[c].pc = "done" /\ meta_lock.by # c /\ cache_lock # c)

(***************************************************************************)
(* Properties of the end of a traversal (SpecGraphFair).                    *)
(***************************************************************************)

\* The pairs expanded so far, in the order of their expansion.
ExpandedPairs ==
    [ i \in DOMAIN expanded |-> << expanded[i].target_path, expanded[i].src_path >> ]

\* C28: draw() comes to its end for every edge list, with or without
\* cycles, whatever maxdepth is: no path pair is expanded twice, so there
\* are never more expansions than distinct pairs in the edge list, and the
\* calls of _graph under way are never more than the expansions and one.
C28_TraversalTerminates ==
    /\ <>Finished
    /\ [](/\ NoRepeat(ExpandedPairs)
          /\ Range(ExpandedPairs) \subseteq DfPairs
          /\ Len(expanded) <= Cardinality(DfPairs)
          /\ Len(stack) <= Len(expanded) + 1)

\* A finished traversal of an edge list with the cycle 1 -> 4 -> 1 that
\* went round the cycle and was stopped by paths_drawn, not by maxdepth:
\* every pair it expanded was expanded above the depth limit.
C28_Witness ==
    /\ Finished
    /\ ~inverse_regex.given
    /\ {<<1, 4>>, <<4, 1>>} \subseteq Range(ExpandedPairs)
    /\ \A i \in DOMAIN expanded : expanded[i].depth < maxdepth
    /\ \A k \in DOMAIN queries : queries[k].depth <= maxdepth

(***************************************************************************)
(* Properties of traversals with different depth limits (SpecGraph).        *)
(***************************************************************************)

\* _graph and draw as functions of the depth limit, for the traversal of
\* the same edge list with the same arguments and another maxdepth.
RECURSIVE graph_at(_, _, _, _, _)
RECURSIVE graph_loop_at(_, _, _, _, _)
graph_at(limit, nixfilter, depth, inv, g) ==
    LET curr_depth == depth + 1
        rows == Query(nixfilter)
        asked == [g EXCEPT !.queries =
                     Append(@, [filter |-> nixfilter, depth |-> curr_depth])]
    IN  IF curr_depth > limit THEN g
        ELSE IF rows = <<>> THEN asked
        ELSE graph_loop_at(limit, rows, curr_depth, inv,
                 [asked EXCEPT !.df_out_csv =
                     IF out_csv THEN @ \o Tagged(rows, curr_depth) ELSE @])

graph_loop_at(limit, rows, curr_depth, inv, g) ==
    IF rows = <<>> THEN g
    ELSE LET row == Head(rows)
             next == IF inv THEN NixGraphFilter("src_path", row.target_path)
                     ELSE NixGraphFilter("target_path", row.src_path)
         IN  IF regex_match(until_regex, row.target_pname)
             THEN graph_loop_at(limit, Tail(rows), curr_depth, inv, g)
             ELSE IF PathKey(row) \in g.paths_drawn
             THEN graph_loop_at(limit, Tail(rows), curr_depth, inv, g)
             ELSE graph_loop_at(limit, Tail(rows), curr_depth, inv,
                     graph_at(limit, next, curr_depth, inv,
                           [g EXCEPT !.paths_drawn = paths_drawn_add(@, row),
                                     !.edges = IF out_csv THEN @
                                               ELSE Append(@, <<row.target_path,
                                                                row.src_path>>)]))

RECURSIVE graph_seeds_at(_, _, _)
graph_seeds_at(limit, starts, g) ==
    IF starts = <<>> THEN g
    ELSE graph_seeds_at(limit, Tail(starts),
             graph_at(limit, NixGraphFilter("src_path", Head(starts)), 0, TRUE, g))

\* The edges draw() emits with maxdepth = limit: the pairs of the table in
\* tabular mode, the edges of the graph otherwise.
EmittedAt(limit) ==
    LET g == IF inverse_regex.given
             THEN graph_seeds_at(limit, InverseSeeds(inverse_regex), NewGraph)
             ELSE graph_at(limit, NixGraphFilter("target_path", StartPath), 0,
                           FALSE, NewGraph)
    IN  IF out_csv THEN PairsOf(g.df_out_csv) ELSE Range(g.edges)

\* C29: the edges a finished traversal emitted with maxdepth = k are among
\* the edges the traversal of the same edge list, in the same row order and
\* from the same start, emits with maxdepth = k + 1.
C29_DepthMonotone ==
    Finished => Emitted \subseteq EmittedAt(maxdepth + 1)

====
